---- MODULE Spec2Model ----
(***************************************************************************)
(* A model of the Iterated Prisoner's Dilemma engine (IPDEngine) and of    *)
(* its seeded random source (SeededRNG, Mulberry32).                       *)
(*                                                                         *)
(* Numbers.  A JavaScript 32-bit word is the pair <<hi, lo>> of its 16-bit *)
(* halves, so that no intermediate value leaves the range of the model     *)
(* checker's integers.  A JavaScript number that is not a word is an exact *)
(* rational <<n, d>> in lowest terms with d > 0; floating-point rounding   *)
(* is not modelled.  Math.exp and Math.sqrt(Math.log(k) / n) are computed  *)
(* in fixed point, and softmax probabilities and UCB bonuses are rationals *)
(* rounded to 12 binary places; softmax temperatures are at least 1/8, so  *)
(* that no exponential overflows.                                          *)
(***************************************************************************)
EXTENDS Integers, Sequences, FiniteSets, TLC

----------------------------------------------------------------------------
(* Bounds of the model. *)

\* nTrials ranges over 0..MaxTrials
MaxTrials == 4

\* blockSize ranges over MinBlockSize..MaxBlockSize
MaxBlockSize == 4

\* seed ranges over 0..MaxSeed
MaxSeed == 2

\* the caller calls run() at most MaxRuns times on one instance
MaxRuns == 2

\* nTrials ranges over 0..MaxPairTrials where two calls are compared
MaxPairTrials == 2

\* the seeds of the random source alone range over -MaxRngSeed..MaxRngSeed
\* and a few seeds at the ends of the 32-bit range
MaxRngSeed == 3

\* next() is called at most MaxDraws times on one SeededRNG
MaxDraws == 4

----------------------------------------------------------------------------
(* 32-bit words as pairs of 16-bit halves. *)

Half == 2 ^ 16

Byte == 2 ^ 8

RECURSIVE Xor16(_, _, _)
Xor16(x, y, n) ==
    IF n = 0 THEN 0
    ELSE ((x + y) % 2) + 2 * Xor16(x \div 2, y \div 2, n - 1)

RECURSIVE Or16(_, _, _)
Or16(x, y, n) ==
    IF n = 0 THEN 0
    ELSE (IF x % 2 = 1 \/ y % 2 = 1 THEN 1 ELSE 0)
         + 2 * Or16(x \div 2, y \div 2, n - 1)

WXor(a, b) == <<Xor16(a[1], b[1], 16), Xor16(a[2], b[2], 16)>>

\* a | k for a constant 0 <= k < 2^16
WOrSmall(a, k) == <<a[1], Or16(a[2], k, 16)>>

\* (a + b) mod 2^32
WAdd(a, b) ==
    LET lo == a[2] + b[2]
    IN  <<(a[1] + b[1] + (lo \div Half)) % Half, lo % Half>>

\* a >>> k for 0 < k < 16
Pow2(k) == 2 ^ k

WShr(a, k) ==
    <<a[1] \div Pow2(k),
      (a[2] \div Pow2(k)) + (a[1] % Pow2(k)) * Pow2(16 - k)>>

\* low 16 bits of x * y, for 16-bit x and y
MulLow16(x, y) ==
    ((x % Byte) * y + (((x \div Byte) * (y % Byte)) % Byte) * Byte) % Half

\* the 32-bit product x * y of two 16-bit numbers, as a word
MulFull16(x, y) ==
    LET A == (x % Byte) * y
        B == (x \div Byte) * y
        S == (A % Half) + (B % Byte) * Byte
    IN  <<((A \div Half) + (B \div Byte) + (S \div Half)) % Half, S % Half>>

\* Math.imul(a, b): the low 32 bits of the product
Imul(a, b) ==
    LET p == MulFull16(a[2], b[2])
    IN  <<(p[1] + MulLow16(a[1], b[2]) + MulLow16(a[2], b[1])) % Half, p[2]>>

\* ToUint32 of an integer n, -2^31 <= n < 2^31 (two's complement)
Word(n) == <<(n \div Half) % Half, n % Half>>

\* 0x6D2B79F5
Golden == <<27947, 31221>>

----------------------------------------------------------------------------
(* SeededRNG *)

\* constructor(seed): this.state = seed
SeededRNG(seed) == Word(seed)

\* next(), line 13: the state after the call
NextState(state) == WAdd(state, Golden)

\* next(), line 14: t = Math.imul(t ^ (t >>> 15), t | 1)
Mix15(w) == Imul(WXor(w, WShr(w, 15)), WOrSmall(w, 1))

\* next(), line 15: t ^= t + Math.imul(t ^ (t >>> 7), t | 61)
Mix7(w) == WXor(w, WAdd(w, Imul(WXor(w, WShr(w, 7)), WOrSmall(w, 61))))

\* line 16 without ">>> 0": the signed 32-bit value of t ^ (t >>> 14), whose
\* high half is negative when bit 31 is set
Mix14Signed(w) ==
    <<IF Xor16(w[1], WShr(w, 14)[1], 16) >= Half \div 2
      THEN Xor16(w[1], WShr(w, 14)[1], 16) - Half
      ELSE Xor16(w[1], WShr(w, 14)[1], 16),
      Xor16(w[2], WShr(w, 14)[2], 16)>>

\* next(), line 16: (t ^ (t >>> 14)) >>> 0
Mix14(w) == WXor(w, WShr(w, 14))

\* next(), lines 13-16: the unsigned 32-bit numerator u of the value u / 2^32
NextBits(state) == Mix14(Mix7(Mix15(NextState(state))))

\* next() < p, for a rational p = n/d whose denominator divides 2^16:
\* u / 2^32 < n/d  iff  floor(u / 2^16) < n * (2^16 / d)
DrawLess(u, p) == u[1] < p[1] * (Half \div p[2])

----------------------------------------------------------------------------
(* Exact rationals <<n, d>>, d > 0, in lowest terms. *)

Abs(x) == IF x < 0 THEN -x ELSE x

RECURSIVE Gcd(_, _)
Gcd(a, b) == IF b = 0 THEN a ELSE Gcd(b, a % b)

Rat(n, d) ==
    LET g == Gcd(Abs(n), Abs(d))
        sg == IF d < 0 THEN -1 ELSE 1
    IN  <<(sg * n) \div g, (sg * d) \div g>>

IntRat(n) == <<n, 1>>

\* sums over the least common denominator, so that no intermediate value
\* is larger than the result needs
RatAdd(x, y) ==
    Rat(x[1] * (y[2] \div Gcd(x[2], y[2])) + y[1] * (x[2] \div Gcd(x[2], y[2])),
        x[2] * (y[2] \div Gcd(x[2], y[2])))

RatSub(x, y) ==
    Rat(x[1] * (y[2] \div Gcd(x[2], y[2])) - y[1] * (x[2] \div Gcd(x[2], y[2])),
        x[2] * (y[2] \div Gcd(x[2], y[2])))

RatMul(x, y) == Rat(x[1] * y[1], x[2] * y[2])

\* x / y for y # 0
RatDiv(x, y) == Rat(x[1] * y[2], x[2] * y[1])

RatLess(x, y) ==
    x[1] * (y[2] \div Gcd(x[2], y[2])) < y[1] * (x[2] \div Gcd(x[2], y[2]))

RatMax(x, y) == IF RatLess(x, y) THEN y ELSE x

RECURSIVE RatSum(_)
RatSum(seq) ==
    IF seq = <<>> THEN IntRat(0) ELSE RatAdd(Head(seq), RatSum(Tail(seq)))

----------------------------------------------------------------------------
(* types.ts: the enumerations *)

C == 0

D == 1

Actions == {C, D}

\* Action | null: null is a value outside Actions
null == -1

ALWAYS_C == "always_c"

ALWAYS_D == "always_d"

RANDOM == "random"

TIT_FOR_TAT == "tit_for_tat"

GRIM_TRIGGER == "grim_trigger"

PAVLOV == "pavlov"

RL_AGENT == "rl_agent"

Q_INCREMENTAL == "q_incremental"

REINFORCE_BASELINE == "reinforce_baseline"

PREFERENCE == "preference"

SOFTMAX == "softmax"

EPSILON_GREEDY == "epsilon_greedy"

UCB == "ucb"

S1_GLOBAL == 1

S2_OPP_MOVE == 2

S4_BOTH_MOVE == 4

NONE == "none"

LINEAR == "linear"

EXP == "exp"

Strategies ==
    {ALWAYS_C, ALWAYS_D, RANDOM, TIT_FOR_TAT, GRIM_TRIGGER, PAVLOV, RL_AGENT}

----------------------------------------------------------------------------
(* IPDEngine: the pure helpers *)

\* a schedule that anneals from trial 0 on, whatever startTrial is
getExplorationParamFromZero(ec, trial) ==
    IF ec.schedule = LINEAR
    THEN RatMax(ec.min, RatSub(ec.start, RatMul(ec.slope, IntRat(trial))))
    ELSE ec.start

\* getExplorationParam(trial).  The exponential schedule needs Math.exp and
\* is evaluated only where its exponent is 0 (decay = 0 or t = 0).
getExplorationParam(ec, trial) ==
    IF ec.schedule = NONE \/ trial < ec.startTrial THEN ec.start
    ELSE LET t == trial - ec.startTrial
         IN  IF ec.schedule = LINEAR
             THEN RatMax(ec.min, RatSub(ec.start, RatMul(ec.slope, IntRat(t))))
             ELSE IF ec.schedule = EXP /\ (t = 0 \/ ec.decay = IntRat(0))
             THEN RatMax(ec.min, ec.start)
             ELSE ec.start

\* absent history read as Defect
OrD(a) == IF a = null THEN D ELSE a

\* agentLastAction ?? Action.C
OrC(a) == IF a = null THEN C ELSE a

\* getState(stateMemory, agentLastAction, opponentLastAction)
getState(stateMemory, agentLastAction, opponentLastAction) ==
    IF stateMemory = S1_GLOBAL THEN 0
    ELSE IF stateMemory = S2_OPP_MOVE THEN OrC(opponentLastAction)
    ELSE IF stateMemory = S4_BOTH_MOVE
    THEN OrC(agentLastAction) * 2 + OrC(opponentLastAction)
    ELSE 0

\* Probabilities and square roots are kept to 12 binary places: a real x
\* is the rational floor(x * 2^12) / 2^12
FixedOne == 2 ^ 12

\* Math.exp, in fixed point: a real x in [0, 1] is the integer
\* floor(x * 2^15)
ExpOne == 2 ^ 15

\* floor(x * 2^15) for a rational x >= 0 with denominator below 2^23, by
\* long division in two steps (2^15 = 2^8 * 2^7)
ToFixed(x) ==
    (x[1] \div x[2]) * ExpOne
    + (((x[1] % x[2]) * 2 ^ 8) \div x[2]) * 2 ^ 7
    + ((((x[1] % x[2]) * 2 ^ 8) % x[2]) * 2 ^ 7) \div x[2]

\* one step of Horner's rule for the series of e^(-y): 1 - (y * rest) / k
Horner(y, rest, k) == ExpOne - ((y * rest) \div ExpOne) \div k

\* e^(-y) for 0 <= y < 1/2: 1 - y + y^2/2 - y^3/6 + y^4/24 - y^5/120
ExpSeries(y) ==
    Horner(y, Horner(y, Horner(y, Horner(y, Horner(y, ExpOne, 5), 4), 3), 2), 1)

Squared(x) == (x * x) \div ExpOne

\* e^(-y) for a fixed-point y >= 0: e^(-y) = (e^(-y/2))^2 until y < 1/2
RECURSIVE ExpNegFixed(_)
ExpNegFixed(y) ==
    IF y < ExpOne \div 2 THEN ExpSeries(y) ELSE Squared(ExpNegFixed(y \div 2))

\* Math.exp(-x) for a rational x >= 0, to about three decimal places;
\* below e^(-32) it is 0
ExpNeg(x) == IF x[1] \div x[2] >= 32 THEN 0 ELSE ExpNegFixed(ToFixed(x))

\* e / (e + other) rounded to 12 binary places
Share(e, other) ==
    Rat((2 * e * FixedOne + (e + other)) \div (2 * (e + other)), FixedOne)

\* Math.max(tau, 1e-6)
ClampTau(tau) == RatMax(tau, <<1, 1000000>>)

\* softmax(values, tau), lines 47-51, for two values.  The exponentials
\* are taken of v / tau less the larger of the two, which leaves the
\* quotients as they are and keeps every exponential in (0, 1]; the
\* probabilities sum to 1 (in doubles: to 1 within an ulp).
softmax(values, tau) ==
    [a \in Actions |->
        IF a = C
        THEN Share(ExpNeg(RatDiv(RatSub(RatMax(values[C], values[D]), values[C]),
                                 ClampTau(tau))),
                   ExpNeg(RatDiv(RatSub(RatMax(values[C], values[D]), values[D]),
                                 ClampTau(tau))))
        ELSE RatSub(IntRat(1),
                 Share(ExpNeg(RatDiv(RatSub(RatMax(values[C], values[D]), values[C]),
                                     ClampTau(tau))),
                       ExpNeg(RatDiv(RatSub(RatMax(values[C], values[D]), values[D]),
                                     ClampTau(tau)))))]

\* a sampler that calls next() again for every index it looks at
selectActionSoftmaxDrawEach(probs, rngState) ==
    IF DrawLess(NextBits(rngState), probs[C])
    THEN [action |-> C, rng |-> NextState(rngState)]
    ELSE [action |-> D, rng |-> NextState(NextState(rngState))]

\* selectActionSoftmax(probs), lines 53-61: one draw r, the first index
\* whose cumulative probability exceeds r, else the last index; and the
\* state left in this.rng
selectActionSoftmax(probs, rngState) ==
    [action |->
         IF DrawLess(NextBits(rngState), probs[C]) THEN C
         ELSE IF DrawLess(NextBits(rngState), RatAdd(probs[C], probs[D])) THEN D
         ELSE D,
     rng |-> NextState(rngState)]

\* a REINFORCE agent routed through the configured selector
UsesSelectorAlways(learningAlgorithm, actionSelection) == actionSelection

\* the selector that picks the RL agent's action, lines 148-183: the
\* configured one under Incremental-Q, softmax otherwise
UsesSelector(learningAlgorithm, actionSelection) ==
    IF learningAlgorithm = Q_INCREMENTAL THEN actionSelection ELSE SOFTMAX

\* getParamsSnapshot(Q, H, learningAlgorithm, numStates): the record with
\* keys S{s}C and S{s}D, here the function s |-> <<S{s}C, S{s}D>>
getParamsSnapshot(Qt, Ht, learningAlgorithm, numStates) ==
    LET source == IF learningAlgorithm = Q_INCREMENTAL THEN Qt ELSE Ht
    IN  [s \in 0..(numStates - 1) |-> <<source[s][C], source[s][D]>>]

\* a tit-for-tat that opens with a defection
TitForTatSuspicious(t, lastOpponentAction) ==
    IF t = 0 THEN D ELSE OrC(lastOpponentAction)

\* Strategy.TIT_FOR_TAT, line 106
TitForTat(t, lastOpponentAction) ==
    IF t = 0 THEN C ELSE OrC(lastOpponentAction)

\* a flag that follows the last action instead of latching
GrimNoLatch(lastOpponentAction, grimTriggered) == lastOpponentAction = D

\* Strategy.GRIM_TRIGGER, line 108: the flag after the check
GrimLatch(lastOpponentAction, grimTriggered) ==
    IF lastOpponentAction = D THEN TRUE ELSE grimTriggered

\* a Pavlov that looks at the other player's last action only
PavlovMirror(t, lastOpponentAction, ownLastAction) ==
    IF t = 0 THEN C
    ELSE IF lastOpponentAction = C THEN C ELSE D

\* Strategy.PAVLOV, lines 111-112
Pavlov(t, lastOpponentAction, ownLastAction) ==
    IF t = 0 THEN C
    ELSE IF ownLastAction = lastOpponentAction THEN C ELSE D

\* determineStrategyAction(strategy, t, lastOpponentAction, ownLastAction,
\* pCooperate, state), reading this.rng: the action returned, the flag left
\* in state.grimTriggered and the state left in this.rng
determineStrategyAction(strategy, t, lastOpponentAction, ownLastAction, pCooperate, grimTriggered, rngState) ==
    CASE strategy = ALWAYS_C ->
           [action |-> C, grimTriggered |-> grimTriggered, rng |-> rngState]
      [] strategy = ALWAYS_D ->
           [action |-> D, grimTriggered |-> grimTriggered, rng |-> rngState]
      [] strategy = RANDOM ->
           [action |-> IF DrawLess(NextBits(rngState), pCooperate) THEN C ELSE D,
            grimTriggered |-> grimTriggered,
            rng |-> NextState(rngState)]
      [] strategy = TIT_FOR_TAT ->
           [action |-> TitForTat(t, lastOpponentAction),
            grimTriggered |-> grimTriggered, rng |-> rngState]
      [] strategy = GRIM_TRIGGER ->
           [action |-> IF GrimLatch(lastOpponentAction, grimTriggered)
                       THEN D ELSE C,
            grimTriggered |-> GrimLatch(lastOpponentAction, grimTriggered),
            rng |-> rngState]
      [] strategy = PAVLOV ->
           [action |-> Pavlov(t, lastOpponentAction, ownLastAction),
            grimTriggered |-> grimTriggered, rng |-> rngState]
      [] OTHER ->
           [action |-> C, grimTriggered |-> grimTriggered, rng |-> rngState]

\* Array.prototype.slice(start, end) on an array of length len: the indices
\* (0-based) of the elements it returns
SliceFrom(len, start) ==
    IF start < 0 THEN (IF len + start < 0 THEN 0 ELSE len + start)
    ELSE (IF start > len THEN len ELSE start)

Slice(seq, start, end) ==
    LET from == SliceFrom(Len(seq), start)
        to == SliceFrom(Len(seq), end)
    IN  IF to <= from THEN <<>> ELSE SubSeq(seq, from + 1, to)

\* Math.floor(a / b) for b # 0
FloorDiv(a, b) == IF b > 0 THEN a \div b ELSE (-a) \div (-b)

----------------------------------------------------------------------------
(* The configurations the caller hands to the engine. *)

Matrix(cc, cd, dc, dd) ==
    [a \in Actions |-> [o \in Actions |->
        IF a = C THEN (IF o = C THEN cc ELSE cd)
                 ELSE (IF o = C THEN dc ELSE dd)]]

\* initialQ, initialH: four rows, as App.tsx builds them
Table(c, d) == [s \in 0..3 |-> [a \in Actions |-> IF a = C THEN c ELSE d]]

\* alpha: null stands for "use 1 / N[s][a]"
NullAlpha == <<0, 0>>

\* The fields that matter to learning and to the random strategies, drawn
\* together.  The first has App.tsx's default payoff, tables and schedule
\* shape.  The third anneals its exploration parameter to 0.
Profiles ==
    { [ payoff |-> Matrix(3, 0, 5, 1),
        pCooperate |-> <<1, 2>>, pCooperateOpponent |-> <<1, 2>>,
        learningAlgorithm |-> Q_INCREMENTAL, actionSelection |-> EPSILON_GREEDY,
        stateMemory |-> S2_OPP_MOVE,
        alpha |-> <<1, 2>>, alphaB |-> <<1, 2>>, alphaPi |-> <<1, 2>>,
        gamma |-> <<1, 2>>, ucbC |-> IntRat(0),
        explorationConfig |->
            [schedule |-> LINEAR, start |-> <<1, 1>>, min |-> <<1, 4>>,
             decay |-> IntRat(0), slope |-> <<1, 2>>, startTrial |-> 1],
        initialQ |-> Table(<<1, 2>>, <<1, 2>>),
        initialH |-> Table(IntRat(0), IntRat(0)) ],
      [ payoff |-> Matrix(2, -1, 4, 0),
        pCooperate |-> <<1, 4>>, pCooperateOpponent |-> <<3, 4>>,
        learningAlgorithm |-> Q_INCREMENTAL, actionSelection |-> UCB,
        stateMemory |-> S4_BOTH_MOVE,
        alpha |-> NullAlpha, alphaB |-> <<1, 2>>, alphaPi |-> <<1, 2>>,
        gamma |-> IntRat(0), ucbC |-> IntRat(0),
        explorationConfig |->
            [schedule |-> NONE, start |-> <<1, 2>>, min |-> <<1, 8>>,
             decay |-> IntRat(0), slope |-> <<1, 4>>, startTrial |-> 0],
        initialQ |-> Table(IntRat(1), IntRat(0)),
        initialH |-> Table(IntRat(0), IntRat(0)) ],
      [ payoff |-> Matrix(3, 0, 5, 1),
        pCooperate |-> <<3, 4>>, pCooperateOpponent |-> <<1, 4>>,
        learningAlgorithm |-> PREFERENCE, actionSelection |-> SOFTMAX,
        stateMemory |-> S1_GLOBAL,
        alpha |-> <<1, 2>>, alphaB |-> <<1, 2>>, alphaPi |-> <<1, 2>>,
        gamma |-> IntRat(0), ucbC |-> IntRat(0),
        explorationConfig |->
            [schedule |-> LINEAR, start |-> <<1, 2>>, min |-> IntRat(0),
             decay |-> IntRat(0), slope |-> <<1, 4>>, startTrial |-> 0],
        initialQ |-> Table(<<1, 2>>, <<1, 2>>),
        initialH |-> Table(IntRat(0), IntRat(1)) ] }

BlockSizes == (-1)..MaxBlockSize

Bases ==
    [ nTrials : 0..MaxTrials,
      blockSize : BlockSizes,
      seed : 0..MaxSeed,
      agentStrategy : Strategies,
      opponentStrategy : Strategies ]

\* the least exploration parameter any trial of the run can get
LeastExploration(ec) ==
    IF ec.schedule = NONE THEN ec.start
    ELSE IF RatLess(ec.start, ec.min) THEN ec.start ELSE ec.min

\* whether the model's numbers cover the configuration.  An RL agent that
\* samples by softmax at a temperature near 0 makes Math.exp overflow to
\* Infinity and the probabilities NaN, which the rationals do not have: it
\* is modelled for temperatures of 1/8 and more.
Modelled(c) ==
    (/\ c.agentStrategy = RL_AGENT
     /\ UsesSelector(c.learningAlgorithm, c.actionSelection) = SOFTMAX)
    => ~RatLess(LeastExploration(c.explorationConfig), <<1, 8>>)

\* Further settings of the learning fields, handed to the engine with an RL
\* agent: Incremental-Q with a full step and no discounting (alpha = 1,
\* gamma = 0) and an epsilon annealed to 0 from the third trial on; UCB1 with an exploration bonus (ucbC = 2) in one global
\* state, with the 1 / N learning rate and discounting; REINFORCE with a
\* baseline and REINFORCE without (preferences), each with a selector
\* configured that is not softmax; and Incremental-Q with softmax at
\* temperature 1 in one global state, with the 1 / N learning rate and no
\* discounting (sample averages).
LearnerProfiles ==
    { [ payoff |-> Matrix(3, 0, 5, 1),
        pCooperate |-> <<1, 2>>, pCooperateOpponent |-> <<1, 2>>,
        learningAlgorithm |-> Q_INCREMENTAL, actionSelection |-> EPSILON_GREEDY,
        stateMemory |-> S4_BOTH_MOVE,
        alpha |-> IntRat(1), alphaB |-> <<1, 2>>, alphaPi |-> <<1, 2>>,
        gamma |-> IntRat(0), ucbC |-> IntRat(0),
        explorationConfig |->
            [schedule |-> LINEAR, start |-> <<1, 2>>, min |-> IntRat(0),
             decay |-> IntRat(0), slope |-> <<1, 2>>, startTrial |-> 1],
        initialQ |-> Table(<<1, 2>>, <<1, 2>>),
        initialH |-> Table(IntRat(0), IntRat(0)) ],
      [ payoff |-> Matrix(3, 0, 5, 1),
        pCooperate |-> <<1, 2>>, pCooperateOpponent |-> <<1, 2>>,
        learningAlgorithm |-> Q_INCREMENTAL, actionSelection |-> UCB,
        stateMemory |-> S1_GLOBAL,
        alpha |-> NullAlpha, alphaB |-> <<1, 2>>, alphaPi |-> <<1, 2>>,
        gamma |-> <<1, 2>>, ucbC |-> IntRat(2),
        explorationConfig |->
            [schedule |-> NONE, start |-> <<1, 2>>, min |-> <<1, 8>>,
             decay |-> IntRat(0), slope |-> <<1, 4>>, startTrial |-> 0],
        initialQ |-> Table(IntRat(0), <<1, 2>>),
        initialH |-> Table(IntRat(0), IntRat(0)) ],
      [ payoff |-> Matrix(3, 0, 5, 1),
        pCooperate |-> <<1, 2>>, pCooperateOpponent |-> <<1, 2>>,
        learningAlgorithm |-> REINFORCE_BASELINE,
        actionSelection |-> EPSILON_GREEDY,
        stateMemory |-> S2_OPP_MOVE,
        alpha |-> <<1, 2>>, alphaB |-> <<1, 2>>, alphaPi |-> <<1, 2>>,
        gamma |-> <<1, 2>>, ucbC |-> IntRat(0),
        explorationConfig |->
            [schedule |-> LINEAR, start |-> IntRat(1), min |-> <<1, 2>>,
             decay |-> IntRat(0), slope |-> <<1, 4>>, startTrial |-> 1],
        initialQ |-> Table(<<1, 2>>, <<1, 2>>),
        initialH |-> Table(IntRat(0), IntRat(0)) ],
      [ payoff |-> Matrix(3, 0, 5, 1),
        pCooperate |-> <<1, 2>>, pCooperateOpponent |-> <<1, 2>>,
        learningAlgorithm |-> PREFERENCE, actionSelection |-> UCB,
        stateMemory |-> S1_GLOBAL,
        alpha |-> <<1, 2>>, alphaB |-> <<1, 2>>, alphaPi |-> <<1, 4>>,
        gamma |-> <<1, 2>>, ucbC |-> IntRat(2),
        explorationConfig |->
            [schedule |-> NONE, start |-> <<1, 2>>, min |-> <<1, 8>>,
             decay |-> IntRat(0), slope |-> <<1, 4>>, startTrial |-> 0],
        initialQ |-> Table(<<1, 2>>, <<1, 2>>),
        initialH |-> Table(<<1, 2>>, IntRat(0)) ],
      [ payoff |-> Matrix(3, 0, 5, 1),
        pCooperate |-> <<1, 2>>, pCooperateOpponent |-> <<1, 2>>,
        learningAlgorithm |-> Q_INCREMENTAL, actionSelection |-> SOFTMAX,
        stateMemory |-> S1_GLOBAL,
        alpha |-> NullAlpha, alphaB |-> <<1, 2>>, alphaPi |-> <<1, 2>>,
        gamma |-> IntRat(0), ucbC |-> IntRat(0),
        explorationConfig |->
            [schedule |-> NONE, start |-> IntRat(1), min |-> <<1, 8>>,
             decay |-> IntRat(0), slope |-> <<1, 4>>, startTrial |-> 0],
        initialQ |-> Table(<<1, 2>>, IntRat(0)),
        initialH |-> Table(IntRat(0), IntRat(0)) ] }

Configs ==
    {c \in {base @@ prof : base \in Bases, prof \in Profiles} : Modelled(c)}
    \cup {c \in {base @@ prof : base \in Bases, prof \in LearnerProfiles} :
              c.agentStrategy = RL_AGENT /\ Modelled(c)}

----------------------------------------------------------------------------
(* The state: the configuration object, the IPDEngine instances built from *)
(* it, the run() call in progress on each, and what each has returned.     *)

Engines == {1, 2}

VARIABLES
    config,             \* the SimulationConfig object (this.config)
    rng,                \* rng[e]: this.rng.state of instance e
    callsLeft,          \* callsLeft[e]: run() calls the caller has yet to make
    pc,                 \* pc[e]: "idle", "trials" (loop 139), "blocks" (loop 231)
    t,                  \* the locals of the run() call in progress
    agentLastAction,
    opponentLastAction,
    agentGrimState,
    opponentGrimState,
    Q,
    N,
    H,
    b,
    trials,
    i,
    blocks,
    returned            \* returned[e]: the outcomes of the finished calls

calls == <<callsLeft, pc, returned>>

locals ==
    <<t, agentLastAction, opponentLastAction, agentGrimState,
      opponentGrimState, Q, N, H, b, trials, i, blocks>>

vars == <<config, rng, calls, locals>>

\* the outcome of a run() call that ended with an exception
Threw == [threw |-> TRUE]

\* no call in progress: the locals do not exist
NoLocals(e) ==
    /\ t' = [t EXCEPT ![e] = 0]
    /\ agentLastAction' = [agentLastAction EXCEPT ![e] = null]
    /\ opponentLastAction' = [opponentLastAction EXCEPT ![e] = null]
    /\ agentGrimState' = [agentGrimState EXCEPT ![e] = FALSE]
    /\ opponentGrimState' = [opponentGrimState EXCEPT ![e] = FALSE]
    /\ Q' = [Q EXCEPT ![e] = <<>>]
    /\ N' = [N EXCEPT ![e] = <<>>]
    /\ H' = [H EXCEPT ![e] = <<>>]
    /\ b' = [b EXCEPT ![e] = <<>>]
    /\ trials' = [trials EXCEPT ![e] = <<>>]
    /\ i' = [i EXCEPT ![e] = 0]
    /\ blocks' = [blocks EXCEPT ![e] = <<>>]

\* new IPDEngine(config) for every instance; the caller will call run()
\* plan[e] times on instance e
InitWith(plan, configs) ==
    /\ config \in configs
    /\ rng = [e \in Engines |-> SeededRNG(config.seed)]
    /\ callsLeft = plan
    /\ pc = [e \in Engines |-> "idle"]
    /\ t = [e \in Engines |-> 0]
    /\ agentLastAction = [e \in Engines |-> null]
    /\ opponentLastAction = [e \in Engines |-> null]
    /\ agentGrimState = [e \in Engines |-> FALSE]
    /\ opponentGrimState = [e \in Engines |-> FALSE]
    /\ Q = [e \in Engines |-> <<>>]
    /\ N = [e \in Engines |-> <<>>]
    /\ H = [e \in Engines |-> <<>>]
    /\ b = [e \in Engines |-> <<>>]
    /\ trials = [e \in Engines |-> <<>>]
    /\ i = [e \in Engines |-> 0]
    /\ blocks = [e \in Engines |-> <<>>]
    /\ returned = [e \in Engines |-> <<>>]

\* const numStates = stateMemory
numStates == config.stateMemory

\* initialQ.slice(0, numStates).map(row => [...row])
CopyRows(table) == [s \in 0..(numStates - 1) |-> table[s]]

\* run(), lines 118-137: the call begins
Run(e) ==
    /\ pc[e] = "idle"
    /\ callsLeft[e] > 0
    /\ callsLeft' = [callsLeft EXCEPT ![e] = @ - 1]
    /\ pc' = [pc EXCEPT ![e] = "trials"]
    /\ t' = [t EXCEPT ![e] = 0]
    /\ trials' = [trials EXCEPT ![e] = <<>>]
    /\ agentLastAction' = [agentLastAction EXCEPT ![e] = null]
    /\ opponentLastAction' = [opponentLastAction EXCEPT ![e] = null]
    /\ agentGrimState' = [agentGrimState EXCEPT ![e] = FALSE]
    /\ opponentGrimState' = [opponentGrimState EXCEPT ![e] = FALSE]
    /\ Q' = [Q EXCEPT ![e] = CopyRows(config.initialQ)]
    /\ N' = [N EXCEPT ![e] = [s \in 0..(numStates - 1) |-> [a \in Actions |-> 0]]]
    /\ H' = [H EXCEPT ![e] = CopyRows(config.initialH)]
    /\ b' = [b EXCEPT ![e] = [s \in 0..(numStates - 1) |-> IntRat(0)]]
    /\ UNCHANGED <<config, rng, returned, i, blocks>>

\* a random source shared by every instance (one module-level generator)
RngShared(e) == 1

\* this.rng of instance e: the constructor gives each instance its own
RngOf(e) == e

\* this.rng.next() < 0.5 ? Action.C : Action.D, and the state left in this.rng
CoinFlip(rngState) ==
    [action |-> IF DrawLess(NextBits(rngState), <<1, 2>>) THEN C ELSE D,
     rng |-> NextState(rngState)]

\* Math.abs(x) < 1e-10.  A rational n/d of the model has d < 2^31 < 10^10,
\* so it is that small only when it is 0.
NearZero(x) == x[1] = 0

\* an epsilon-greedy branch that settles a tie for C without a draw
EpsilonGreedyTieToC(q, exParam, rngState) ==
    IF DrawLess(NextBits(rngState), exParam) THEN CoinFlip(NextState(rngState))
    ELSE [action |-> IF RatLess(q[C], q[D]) THEN D ELSE C,
          rng |-> NextState(rngState)]

\* the epsilon-greedy branch, lines 153-161
EpsilonGreedy(q, exParam, rngState) ==
    LET afterFirst == NextState(rngState)
    IN  IF DrawLess(NextBits(rngState), exParam) THEN CoinFlip(afterFirst)
        ELSE IF NearZero(RatSub(q[C], q[D])) THEN CoinFlip(afterFirst)
        ELSE [action |-> IF RatLess(q[D], q[C]) THEN C ELSE D,
              rng |-> afterFirst]

\* Math.log(k) for the integers k = 1 .. 8 a run of the model can pass:
\* floor(ln(k) * 2^24)
LogScaled(k) ==
    CASE k = 1 -> 0
      [] k = 2 -> 11629079
      [] k = 3 -> 18431655
      [] k = 4 -> 23258159
      [] k = 5 -> 27001887
      [] k = 6 -> 30060735
      [] k = 7 -> 32646954
      [] k = 8 -> 34887239

\* floor(sqrt(x)) for 0 <= x < 2^26, bit by bit from the top
RECURSIVE SqrtFrom(_, _, _)
SqrtFrom(x, root, bit) ==
    IF bit = 0 THEN root
    ELSE IF (root + bit) * (root + bit) <= x
    THEN SqrtFrom(x, root + bit, bit \div 2)
    ELSE SqrtFrom(x, root, bit \div 2)

\* Math.sqrt(Math.log(totalN + 1) / n) to 12 binary places, for n >= 1
SqrtLogOver(totalN, n) ==
    Rat(SqrtFrom(LogScaled(totalN + 1) \div n, 0, FixedOne), FixedOne)

\* ucbC * Math.sqrt(Math.log(totalN + 1) / n), lines 171-172
UcbBonus(ucbC, totalN, n) == RatMul(ucbC, SqrtLogOver(totalN, n))

\* a UCB branch without forced exploration: an action never tried here is
\* compared by its value alone
UcbUnforced(q, n, ucbC, rngState) ==
    IF n[C] = 0 /\ n[D] = 0 THEN CoinFlip(rngState)
    ELSE IF n[C] = 0 \/ n[D] = 0
    THEN [action |-> IF RatLess(q[D], q[C]) THEN C ELSE D, rng |-> rngState]
    ELSE [action |->
              IF RatLess(RatAdd(q[D], UcbBonus(ucbC, n[C] + n[D], n[D])),
                         RatAdd(q[C], UcbBonus(ucbC, n[C] + n[D], n[C])))
              THEN C ELSE D,
          rng |-> rngState]

\* the UCB branch, lines 163-178
Ucb(q, n, ucbC, rngState) ==
    LET totalN == n[C] + n[D]
        ucb0 == RatAdd(q[C], UcbBonus(ucbC, totalN, n[C]))
        ucb1 == RatAdd(q[D], UcbBonus(ucbC, totalN, n[D]))
    IN  IF n[C] = 0 /\ n[D] = 0 THEN CoinFlip(rngState)
        ELSE IF n[C] = 0 THEN [action |-> C, rng |-> rngState]
        ELSE IF n[D] = 0 THEN [action |-> D, rng |-> rngState]
        ELSE IF NearZero(RatSub(ucb0, ucb1)) THEN CoinFlip(rngState)
        ELSE [action |-> IF RatLess(ucb1, ucb0) THEN C ELSE D, rng |-> rngState]

\* let probs = [0.5, 0.5], line 144
EvenProbs == [a \in Actions |-> <<1, 2>>]

\* 1. Determine Agent Action, lines 147-186: the action, the agent's grim
\* flag, the state left in this.rng and probs
AgentStep(e, s, exParam) ==
    IF config.agentStrategy = RL_AGENT
    THEN LET selector ==
                 UsesSelector(config.learningAlgorithm, config.actionSelection)
             values ==
                 IF config.learningAlgorithm = Q_INCREMENTAL
                 THEN Q[e][s] ELSE H[e][s]
             probs ==
                 IF selector = SOFTMAX THEN softmax(values, exParam)
                 ELSE EvenProbs
             choice ==
                 IF selector = SOFTMAX
                 THEN selectActionSoftmax(probs, rng[RngOf(e)])
                 ELSE IF selector = EPSILON_GREEDY
                 THEN EpsilonGreedy(values, exParam, rng[RngOf(e)])
                 ELSE Ucb(values, N[e][s], config.ucbC, rng[RngOf(e)])
         IN  [action |-> choice.action, grimTriggered |-> agentGrimState[e],
              rng |-> choice.rng, probs |-> probs]
    ELSE [probs |-> EvenProbs]
         @@ determineStrategyAction(config.agentStrategy, t[e],
                opponentLastAction[e], agentLastAction[e], config.pCooperate,
                agentGrimState[e], rng[RngOf(e)])

\* an opponent that draws from a generator of its own, built from the seed,
\* and leaves this.rng alone
OpponentStepOwnRng(e, rngState) ==
    [determineStrategyAction(config.opponentStrategy, t[e], agentLastAction[e],
                             opponentLastAction[e], config.pCooperateOpponent,
                             opponentGrimState[e], SeededRNG(config.seed))
        EXCEPT !.rng = rngState]

\* an opponent whose move is turned over when a draw falls below 1/4
OpponentStepTrembling(e, rngState) ==
    [determineStrategyAction(config.opponentStrategy, t[e], agentLastAction[e],
                             opponentLastAction[e], config.pCooperateOpponent,
                             opponentGrimState[e], rngState)
        EXCEPT !.action = IF DrawLess(NextBits(rngState), <<1, 4>>)
                          THEN 1 - @ ELSE @,
               !.rng = NextState(rngState)]

\* an opponent handed its own last action as the other player's
OpponentStepSwapped(e, rngState) ==
    determineStrategyAction(config.opponentStrategy, t[e], opponentLastAction[e],
                            agentLastAction[e], config.pCooperateOpponent,
                            opponentGrimState[e], rngState)

\* 2. Determine Opponent Action (line 189), after the agent's draws
OpponentStep(e, rngState) ==
    determineStrategyAction(config.opponentStrategy, t[e], agentLastAction[e],
                            opponentLastAction[e], config.pCooperateOpponent,
                            opponentGrimState[e], rngState)

\* a count kept per state: both entries of the row go up
CountVisitBoth(Nt, s, a) == [Nt EXCEPT ![s] = [k \in Actions |-> @[k] + 1]]

\* N[s][agentAction]++, line 198
CountVisit(Nt, s, a) == [Nt EXCEPT ![s][a] = @ + 1]

\* an update whose target looks at the row of the current state, not of
\* the next
UpdateQSameState(Qt, Nt, s, a, reward, sNext) ==
    LET lr == IF config.alpha = NullAlpha THEN Rat(1, Nt[s][a]) ELSE config.alpha
        maxQNext == RatMax(Qt[s][C], Qt[s][D])
        target == RatAdd(IntRat(reward), RatMul(config.gamma, maxQNext))
    IN  [Qt EXCEPT ![s][a] = RatAdd(@, RatMul(lr, RatSub(target, @)))]

\* an update whose 1/N learning rate counts one visit too many
UpdateQStaleCount(Qt, Nt, s, a, reward, sNext) ==
    LET lr == IF config.alpha = NullAlpha THEN Rat(1, Nt[s][a] + 1) ELSE config.alpha
        maxQNext == RatMax(Qt[sNext][C], Qt[sNext][D])
        target == RatAdd(IntRat(reward), RatMul(config.gamma, maxQNext))
    IN  [Qt EXCEPT ![s][a] = RatAdd(@, RatMul(lr, RatSub(target, @)))]

\* an update that adds lr * target without taking the old value off
UpdateQNoError(Qt, Nt, s, a, reward, sNext) ==
    LET lr == IF config.alpha = NullAlpha THEN Rat(1, Nt[s][a]) ELSE config.alpha
        maxQNext == RatMax(Qt[sNext][C], Qt[sNext][D])
        target == RatAdd(IntRat(reward), RatMul(config.gamma, maxQNext))
    IN  [Qt EXCEPT ![s][a] = RatAdd(@, RatMul(lr, target))]

\* the Incremental-Q update, lines 199-202, with the count already incremented
UpdateQ(Qt, Nt, s, a, reward, sNext) ==
    LET lr == IF config.alpha = NullAlpha THEN Rat(1, Nt[s][a]) ELSE config.alpha
        maxQNext == RatMax(Qt[sNext][C], Qt[sNext][D])
        target == RatAdd(IntRat(reward), RatMul(config.gamma, maxQNext))
    IN  [Qt EXCEPT ![s][a] = RatAdd(@, RatMul(lr, RatSub(target, @)))]

\* a record whose trial field counts from 1
TrialResultFromOne(trial, agentAction, oppAction, reward, exParam, parameters) ==
    [trial |-> trial + 1, agentAction |-> agentAction,
     opponentAction |-> oppAction, reward |-> reward,
     explorationParam |-> exParam, parameters |-> parameters]

\* the payoff matrix read with its indices exchanged
RewardTransposed(agentAction, oppAction) == config.payoff[oppAction][agentAction]

\* const reward = payoff[agentAction][oppAction], line 191
Reward(agentAction, oppAction) == config.payoff[agentAction][oppAction]

\* the TrialResult pushed at lines 217-224
TrialResult(trial, agentAction, oppAction, reward, exParam, parameters) ==
    [trial |-> trial, agentAction |-> agentAction, opponentAction |-> oppAction,
     reward |-> reward, explorationParam |-> exParam, parameters |-> parameters]

\* an advantage that reads the baseline after its update
BaselineAfterUpdate(bt, s, reward) ==
    IF config.learningAlgorithm = REINFORCE_BASELINE
    THEN RatAdd(bt[s], RatMul(config.alphaB, RatSub(IntRat(reward), bt[s])))
    ELSE IntRat(0)

\* const baseline = ... ? b[s] : 0, line 204, read before b[s] moves
Baseline(bt, s, reward) ==
    IF config.learningAlgorithm = REINFORCE_BASELINE THEN bt[s] ELSE IntRat(0)

\* b[s] += alphaB * (reward - b[s]), lines 206-208
UpdateBaseline(bt, s, reward) ==
    IF config.learningAlgorithm = REINFORCE_BASELINE
    THEN [bt EXCEPT ![s] =
             RatAdd(@, RatMul(config.alphaB, RatSub(IntRat(reward), @)))]
    ELSE bt

\* H[s][i] += alphaPi * advantage * ((i === agentAction ? 1 : 0) - pi[i])
\* for i = 0, 1, lines 209-213
UpdateH(Ht, s, a, pi, advantage) ==
    [Ht EXCEPT ![s] =
        [k \in Actions |->
            RatAdd(@[k],
                   RatMul(RatMul(config.alphaPi, advantage),
                          RatSub(IntRat(IF k = a THEN 1 ELSE 0), pi[k])))]]

\* a learning update applied whatever the agent's strategy is
LearnedWhoeverPlays(e, s, a, probs, reward, sNext) ==
    IF config.learningAlgorithm = Q_INCREMENTAL
    THEN [N |-> CountVisit(N[e], s, a),
          Q |-> UpdateQ(Q[e], CountVisit(N[e], s, a), s, a, reward, sNext),
          H |-> H[e], b |-> b[e]]
    ELSE [N |-> N[e], Q |-> Q[e],
          H |-> UpdateH(H[e], s, a, probs,
                        RatSub(IntRat(reward), Baseline(b[e], s, reward))),
          b |-> UpdateBaseline(b[e], s, reward)]

\* 3. Update RL Agent if applicable, lines 194-215: the tables after the
\* trial
Learned(e, s, a, probs, reward, sNext) ==
    IF config.agentStrategy # RL_AGENT
    THEN [N |-> N[e], Q |-> Q[e], H |-> H[e], b |-> b[e]]
    ELSE IF config.learningAlgorithm = Q_INCREMENTAL
    THEN [N |-> CountVisit(N[e], s, a),
          Q |-> UpdateQ(Q[e], CountVisit(N[e], s, a), s, a, reward, sNext),
          H |-> H[e], b |-> b[e]]
    ELSE [N |-> N[e], Q |-> Q[e],
          H |-> UpdateH(H[e], s, a, probs,
                        RatSub(IntRat(reward), Baseline(b[e], s, reward))),
          b |-> UpdateBaseline(b[e], s, reward)]

\* tables whose rows are the configuration's own rows (a shallow
\* initialQ.slice(0, numStates)): the writes show in config.initialQ
ConfigRowsShared(e, tables) ==
    [config EXCEPT !.initialQ =
        [s \in DOMAIN @ |-> IF s \in DOMAIN tables.Q THEN tables.Q[s] ELSE @[s]]]

\* the configuration after the writes of a trial.  Q, N, H and b are the
\* arrays lines 134-137 build: the rows of initialQ and initialH are copied
\* ([...row]), so no write of lines 198-212 lands in the configuration
ConfigAfterUpdate(e, tables) == config

\* one iteration of the trial loop, lines 139-228
Trial(e) ==
    /\ pc[e] = "trials"
    /\ t[e] < config.nTrials
    /\ \E exParam \in {getExplorationParam(config.explorationConfig, t[e])},
          s \in {getState(config.stateMemory, agentLastAction[e],
                          opponentLastAction[e])} :
       \E agent \in {AgentStep(e, s, exParam)} :
       \E opp \in {OpponentStep(e, agent.rng)} :
       \E reward \in {Reward(agent.action, opp.action)},
          sNext \in {getState(config.stateMemory, agent.action, opp.action)} :
       \E tables \in {Learned(e, s, agent.action, agent.probs, reward, sNext)} :
           /\ rng' = [rng EXCEPT ![RngOf(e)] = opp.rng]
           /\ agentGrimState' = [agentGrimState EXCEPT ![e] = agent.grimTriggered]
           /\ opponentGrimState' = [opponentGrimState EXCEPT ![e] = opp.grimTriggered]
           /\ config' = ConfigAfterUpdate(e, tables)
           /\ N' = [N EXCEPT ![e] = tables.N]
           /\ Q' = [Q EXCEPT ![e] = tables.Q]
           /\ H' = [H EXCEPT ![e] = tables.H]
           /\ b' = [b EXCEPT ![e] = tables.b]
           /\ trials' = [trials EXCEPT ![e] =
                  Append(@, TrialResult(t[e], agent.action, opp.action, reward,
                      exParam,
                      getParamsSnapshot(tables.Q, tables.H, config.learningAlgorithm,
                                        numStates)))]
           /\ agentLastAction' = [agentLastAction EXCEPT ![e] = agent.action]
           /\ opponentLastAction' = [opponentLastAction EXCEPT ![e] = opp.action]
    /\ t' = [t EXCEPT ![e] = @ + 1]
    /\ UNCHANGED <<calls, i, blocks>>

\* the trial loop ends; const blocks = []; i = 0 (lines 230-231)
EndTrials(e) ==
    /\ pc[e] = "trials"
    /\ ~(t[e] < config.nTrials)
    /\ pc' = [pc EXCEPT ![e] = "blocks"]
    /\ i' = [i EXCEPT ![e] = 0]
    /\ blocks' = [blocks EXCEPT ![e] = <<>>]
    /\ UNCHANGED <<config, rng, callsLeft, returned, t, agentLastAction,
                   opponentLastAction, agentGrimState, opponentGrimState,
                   Q, N, H, b, trials>>

\* slice.filter(t => t.agentAction === Action.C).length
CountC(slice, field) == Cardinality({k \in 1..Len(slice) : slice[k][field] = C})

\* slice.reduce((sum, t) => sum + t.reward, 0)
TotalReward(slice) == RatSum([k \in 1..Len(slice) |-> IntRat(slice[k].reward)])

TotalExParam(slice) == RatSum([k \in 1..Len(slice) |-> slice[k].explorationParam])

\* a BlockResult that divides by blockSize instead of slice.length
BlockResultBySize(at, blockSize, slice) ==
    LET len == IntRat(blockSize)
    IN  [block |-> FloorDiv(at, blockSize),
         midpoint |-> RatAdd(IntRat(at), RatDiv(IntRat(Len(slice)), IntRat(2))),
         pctCooperate |->
             RatMul(RatDiv(IntRat(CountC(slice, "agentAction")), len), IntRat(100)),
         oppPctCooperate |->
             RatMul(RatDiv(IntRat(CountC(slice, "opponentAction")), len), IntRat(100)),
         meanReward |-> RatDiv(TotalReward(slice), len),
         meanExplorationParam |-> RatDiv(TotalExParam(slice), len),
         parameters |-> slice[Len(slice)].parameters]

\* the BlockResult pushed at lines 239-247, for a non-empty slice
BlockResult(at, blockSize, slice) ==
    LET len == IntRat(Len(slice))
    IN  [block |-> FloorDiv(at, blockSize),
         midpoint |-> RatAdd(IntRat(at), RatDiv(len, IntRat(2))),
         pctCooperate |->
             RatMul(RatDiv(IntRat(CountC(slice, "agentAction")), len), IntRat(100)),
         oppPctCooperate |->
             RatMul(RatDiv(IntRat(CountC(slice, "opponentAction")), len), IntRat(100)),
         meanReward |-> RatDiv(TotalReward(slice), len),
         meanExplorationParam |-> RatDiv(TotalExParam(slice), len),
         parameters |-> slice[Len(slice)].parameters]

\* a slice that drops the last trial of each block
BlockSliceShort(e) == Slice(trials[e], i[e], i[e] + config.blockSize - 1)

\* trials.slice(i, i + blockSize), line 232
BlockSlice(e) == Slice(trials[e], i[e], i[e] + config.blockSize)

\* a block loop that steps by one trial (i++) instead of by blockSize
BlockStepOne(e) ==
    /\ pc[e] = "blocks"
    /\ i[e] < config.nTrials
    /\ BlockSlice(e) # <<>>
    /\ blocks' = [blocks EXCEPT ![e] =
           Append(@, BlockResult(i[e], config.blockSize, BlockSlice(e)))]
    /\ i' = [i EXCEPT ![e] = @ + 1]
    /\ UNCHANGED <<config, rng, calls, t, agentLastAction, opponentLastAction,
                   agentGrimState, opponentGrimState, Q, N, H, b, trials>>

\* one iteration of the block loop, lines 231-248, on a non-empty slice
Block(e) ==
    /\ pc[e] = "blocks"
    /\ i[e] < config.nTrials
    /\ BlockSlice(e) # <<>>
    /\ blocks' = [blocks EXCEPT ![e] =
           Append(@, BlockResult(i[e], config.blockSize, BlockSlice(e)))]
    /\ i' = [i EXCEPT ![e] = @ + config.blockSize]
    /\ UNCHANGED <<config, rng, calls, t, agentLastAction, opponentLastAction,
                   agentGrimState, opponentGrimState, Q, N, H, b, trials>>

\* an aggregation that ends the loop at an empty slice and returns what it
\* has
BlockThrowReturns(e) ==
    /\ pc[e] = "blocks"
    /\ i[e] < config.nTrials
    /\ BlockSlice(e) = <<>>
    /\ pc' = [pc EXCEPT ![e] = "idle"]
    /\ returned' = [returned EXCEPT ![e] =
           Append(@, [trials |-> trials[e], blocks |-> blocks[e]])]
    /\ NoLocals(e)
    /\ UNCHANGED <<config, rng, callsLeft>>

\* line 237 on an empty slice: slice[-1] is undefined and reading its
\* parameters throws a TypeError, which ends the call
BlockThrow(e) ==
    /\ pc[e] = "blocks"
    /\ i[e] < config.nTrials
    /\ BlockSlice(e) = <<>>
    /\ pc' = [pc EXCEPT ![e] = "idle"]
    /\ returned' = [returned EXCEPT ![e] = Append(@, Threw)]
    /\ NoLocals(e)
    /\ UNCHANGED <<config, rng, callsLeft>>

\* return { trials, blocks }, line 250
Return(e) ==
    /\ pc[e] = "blocks"
    /\ ~(i[e] < config.nTrials)
    /\ pc' = [pc EXCEPT ![e] = "idle"]
    /\ returned' = [returned EXCEPT ![e] =
           Append(@, [trials |-> trials[e], blocks |-> blocks[e]])]
    /\ NoLocals(e)
    /\ UNCHANGED <<config, rng, callsLeft>>

Next ==
    \E e \in Engines :
        \/ Run(e)
        \/ Trial(e)
        \/ EndTrials(e)
        \/ Block(e)
        \/ BlockThrow(e)
        \/ Return(e)

\* one instance, one call of run()
Init == InitWith([e \in Engines |-> IF e = 1 THEN 1 ELSE 0], Configs)

Spec == Init /\ [][Next]_vars

\* the configurations on which two calls are compared
PairConfigs ==
    {c \in Configs : c.nTrials <= MaxPairTrials /\ c.blockSize \in {0, 2}}

\* two instances built from the same configuration, one call each, their
\* steps interleaved
InitPair == InitWith([e \in Engines |-> 1], PairConfigs)

SpecPair == InitPair /\ [][Next]_vars

\* one instance on which the caller calls run() MaxRuns times
InitRerun ==
    InitWith([e \in Engines |-> IF e = 1 THEN MaxRuns ELSE 0], PairConfigs)

SpecRerun == InitRerun /\ [][Next]_vars

\* the seeds handed to new SeededRNG(seed) where the random source is
\* exercised alone
RngSeeds == ((-MaxRngSeed)..MaxRngSeed) \cup {42, 2147483647, -2147483647}

\* a caller that builds two SeededRNG instances from one seed and calls
\* next() on them in any order: rng[e] is the state of instance e,
\* callsLeft[e] the calls of next() yet to make on it and returned[e] the
\* numerators u of the values u / 2^32 its calls have returned
InitRng ==
    InitWith([e \in Engines |-> MaxDraws],
             {[c EXCEPT !.seed = seed] :
                  c \in {k \in Configs : /\ k.nTrials = 0 /\ k.blockSize = 1
                                         /\ k.seed = 0
                                         /\ k.agentStrategy = ALWAYS_C
                                         /\ k.opponentStrategy = RANDOM
                                         /\ k.learningAlgorithm = PREFERENCE},
                  seed \in RngSeeds})

\* one call of next() on SeededRNG instance e, lines 12-17
Draw(e) ==
    /\ callsLeft[e] > 0
    /\ callsLeft' = [callsLeft EXCEPT ![e] = @ - 1]
    /\ returned' = [returned EXCEPT ![e] = Append(@, NextBits(rng[e]))]
    /\ rng' = [rng EXCEPT ![e] = NextState(rng[e])]
    /\ UNCHANGED <<config, pc, locals>>

NextRng == \E e \in Engines : Draw(e)

SpecRng == InitRng /\ [][NextRng]_vars

\* two instances built from configurations that differ in the seed alone,
\* each called once: instance 1 from config, instance 2 from config with
\* another seed (the constructor, line 31, is the one place that reads
\* config.seed), with an agent that does not learn
InitSeeds ==
    /\ config \in {c \in PairConfigs : c.agentStrategy # RL_AGENT}
    /\ \E seed \in (0..MaxSeed) \ {config.seed} :
           rng = [e \in Engines |->
                     IF e = 1 THEN SeededRNG(config.seed) ELSE SeededRNG(seed)]
    /\ callsLeft = [e \in Engines |-> 1]
    /\ pc = [e \in Engines |-> "idle"]
    /\ t = [e \in Engines |-> 0]
    /\ agentLastAction = [e \in Engines |-> null]
    /\ opponentLastAction = [e \in Engines |-> null]
    /\ agentGrimState = [e \in Engines |-> FALSE]
    /\ opponentGrimState = [e \in Engines |-> FALSE]
    /\ Q = [e \in Engines |-> <<>>]
    /\ N = [e \in Engines |-> <<>>]
    /\ H = [e \in Engines |-> <<>>]
    /\ b = [e \in Engines |-> <<>>]
    /\ trials = [e \in Engines |-> <<>>]
    /\ i = [e \in Engines |-> 0]
    /\ blocks = [e \in Engines |-> <<>>]
    /\ returned = [e \in Engines |-> <<>>]

SpecSeeds == InitSeeds /\ [][Next]_vars

\* the arrays handed to selectActionSoftmax: softmax results, and arrays
\* whose entries sum to less than 1 or are all 0, for which no cumulative
\* sum need exceed the draw (in the code that is the case of an array of
\* NaN, which an overflowing Math.exp leaves)
ProbVectors ==
    { [a \in Actions |-> IF a = C THEN pair[1] ELSE pair[2]] :
        pair \in { <<<<1, 2>>, <<1, 2>>>>, <<<<1, 4>>, <<3, 4>>>>,
                   <<<<1, 4>>, <<1, 4>>>>, <<<<0, 1>>, <<0, 1>>>> } }

\* an engine on which selectActionSoftmax is called with any of these
\* arrays, at most MaxDraws times: returned[e] lists the calls, each with
\* the array, the numerator u of the value u / 2^32 drawn, and the result
InitSample ==
    InitWith([e \in Engines |-> IF e = 1 THEN MaxDraws ELSE 0],
             {[c EXCEPT !.seed = seed] :
                  c \in {k \in Configs : /\ k.nTrials = 0 /\ k.blockSize = 1
                                         /\ k.seed = 0
                                         /\ k.agentStrategy = ALWAYS_C
                                         /\ k.opponentStrategy = RANDOM
                                         /\ k.learningAlgorithm = PREFERENCE},
                  seed \in RngSeeds})

\* one call of selectActionSoftmax(probs) on instance e, lines 53-61
Sample(e) ==
    /\ callsLeft[e] > 0
    /\ callsLeft' = [callsLeft EXCEPT ![e] = @ - 1]
    /\ \E probs \in ProbVectors :
         \E choice \in {selectActionSoftmax(probs, rng[e])} :
            /\ returned' =
                   [returned EXCEPT ![e] =
                        Append(@, [probs |-> probs, r |-> NextBits(rng[e]),
                                   action |-> choice.action])]
            /\ rng' = [rng EXCEPT ![e] = choice.rng]
    /\ UNCHANGED <<config, pc, locals>>

NextSample == \E e \in Engines : Sample(e)

SpecSample == InitSample /\ [][NextSample]_vars

----------------------------------------------------------------------------
(* What the caller observes. *)

\* an outcome that is a returned { trials, blocks }, not an exception
IsResult(x) == "trials" \in DOMAIN x

\* instance e has finished its r-th call
Finished(e, r) == Len(returned[e]) >= r

\* a random draw decides something in the configuration
UsesRandomness ==
    \/ config.agentStrategy \in {RANDOM, RL_AGENT}
    \/ config.opponentStrategy = RANDOM

----------------------------------------------------------------------------
(* C1: for a fixed configuration (seed included), two independently built  *)
(* instances that each call run() once return the same trials and the same *)
(* blocks, field for field, however their steps interleave.                *)
C1_Deterministic ==
    (Finished(1, 1) /\ Finished(2, 1)) => returned[1][1] = returned[2][1]

C1_Witness ==
    /\ Finished(1, 1) /\ Finished(2, 1)
    /\ IsResult(returned[1][1])
    /\ UsesRandomness
    /\ config.agentStrategy = RL_AGENT
    /\ Len(returned[2][1].trials) = MaxPairTrials
    /\ Len(returned[2][1].blocks) >= 1

(* C2: a second run() on the same instance returns what the first returned *)
(* (the claim as stated; the code keeps the RNG cursor in the instance).   *)
C2_RerunSame ==
    (Finished(1, 2)) => returned[1][2] = returned[1][1]

----------------------------------------------------------------------------
(* The single call of Spec: instance 1. *)

Min(x, y) == IF x < y THEN x ELSE y

CeilDiv(n, d) == (n + d - 1) \div d

\* the call has returned { trials, blocks }
Returned == Finished(1, 1) /\ IsResult(returned[1][1])

Result == returned[1][1]

\* the trials of block k (k = 0, 1, ...) of a partition into blocks of size
\* config.blockSize: positions First(k)+1 .. Last(k) of the trial sequence
First(k) == k * config.blockSize

Last(k) == Min((k + 1) * config.blockSize, config.nTrials)

\* the guard of some step of instance e holds
CanStep(e) ==
    \/ pc[e] = "idle" /\ callsLeft[e] > 0
    \/ pc[e] = "trials" /\ (t[e] < config.nTrials \/ ~(t[e] < config.nTrials))
    \/ pc[e] = "blocks" /\ i[e] < config.nTrials
                        /\ (BlockSlice(e) # <<>> \/ BlockSlice(e) = <<>>)
    \/ pc[e] = "blocks" /\ ~(i[e] < config.nTrials)

\* an upper bound on the steps instance e has yet to take
StepsLeft(e) ==
    callsLeft[e] * (2 * config.nTrials + 4)
    + (CASE pc[e] = "trials" -> (config.nTrials - t[e]) + config.nTrials + 2
         [] pc[e] = "blocks" ->
              (IF i[e] < config.nTrials THEN config.nTrials - i[e] ELSE 0) + 1
         [] OTHER -> 0)

(* C3: with nTrials >= 0 and blockSize >= 1 the call passes through the    *)
(* trials 0, 1, ..., nTrials-1 in order, one per step, then ends: it       *)
(* returns exactly nTrials trial records whose trial fields are            *)
(* 0 .. nTrials-1 in order; with nTrials = 0 both sequences are empty and  *)
(* nothing is thrown.  Termination: until the call has returned the guard  *)
(* of a step holds, and every step lowers StepsLeft, which is never        *)
(* negative.                                                               *)
C3_RunsEveryTrial ==
    /\ [](config.blockSize >= 1 =>
            /\ pc[1] = "trials" => (t[1] <= config.nTrials /\ Len(trials[1]) = t[1])
            /\ StepsLeft(1) >= 0
            /\ ~Finished(1, 1) => CanStep(1)
            /\ Finished(1, 1) =>
                 /\ IsResult(Result)
                 /\ Len(Result.trials) = config.nTrials
                 /\ \A k \in 1..Len(Result.trials) : Result.trials[k].trial = k - 1
                 /\ config.nTrials = 0 =>
                        (Result.trials = <<>> /\ Result.blocks = <<>>))
    /\ [][config.blockSize >= 1 =>
            /\ StepsLeft(1)' < StepsLeft(1)
            /\ Trial(1) =>
                 /\ t'[1] = t[1] + 1
                 /\ trials'[1] = Append(trials[1], trials'[1][t[1] + 1])
                 /\ trials'[1][t[1] + 1].trial = t[1]]_vars

C3_Witness ==
    /\ Returned
    /\ config.blockSize >= 1
    /\ Len(Result.trials) = MaxTrials

(* C4: with blockSize >= 1 the returned blocks partition the trials into   *)
(* contiguous blocks in order: ceil(nTrials / blockSize) blocks, block k   *)
(* has index k and is the aggregate of trials k*blockSize ..               *)
(* min((k+1)*blockSize, nTrials) - 1, every block but possibly the last    *)
(* has blockSize trials, and every trial is in exactly one block.          *)
C4_BlocksPartition ==
    (Finished(1, 1) /\ config.blockSize >= 1) =>
        /\ IsResult(Result)
        /\ Len(Result.blocks) = CeilDiv(config.nTrials, config.blockSize)
        /\ \A k \in 0..(Len(Result.blocks) - 1) :
             /\ Result.blocks[k + 1].block = k
             /\ Result.blocks[k + 1] =
                    BlockResult(First(k), config.blockSize,
                                SubSeq(Result.trials, First(k) + 1, Last(k)))
             \* the midpoint gives the block's size: First(k) + size / 2
             /\ Result.blocks[k + 1].midpoint =
                    Rat(2 * First(k) + (Last(k) - First(k)), 2)
             /\ (k < Len(Result.blocks) - 1) =>
                    Last(k) - First(k) = config.blockSize
        /\ \A j \in 0..(config.nTrials - 1) :
             Cardinality({k \in 0..(Len(Result.blocks) - 1) :
                             First(k) <= j /\ j < Last(k)}) = 1

\* nTrials is not a multiple of blockSize: the last block is short
C4_Witness ==
    /\ Returned
    /\ config.blockSize >= 2
    /\ Len(Result.blocks) >= 2
    /\ config.nTrials % config.blockSize # 0

\* the number of trials of seq in which field is Cooperate
RECURSIVE Cooperations(_, _)
Cooperations(seq, field) ==
    IF seq = <<>> THEN 0
    ELSE (IF Head(seq)[field] = C THEN 1 ELSE 0) + Cooperations(Tail(seq), field)

RECURSIVE RewardSum(_)
RewardSum(seq) ==
    IF seq = <<>> THEN 0 ELSE Head(seq).reward + RewardSum(Tail(seq))

\* n / d = x as rationals
IsQuotient(x, n, d) == x[1] * d = n * x[2]

C6_AlwaysOneBlock ==
    (Finished(1, 1) /\ config.blockSize > config.nTrials) =>
        (IsResult(Result) /\ Len(Result.blocks) = 1)

(* C6, amended: whenever blockSize > nTrials and nTrials >= 1, run()       *)
(* returns exactly one block, which holds all nTrials trials; with         *)
(* nTrials = 0 it returns no block.                                        *)
C6_OneShortBlock ==
    (Finished(1, 1) /\ config.blockSize > config.nTrials) =>
        /\ IsResult(Result)
        /\ config.nTrials >= 1 =>
             /\ Len(Result.blocks) = 1
             /\ Result.blocks[1].block = 0
             /\ Result.blocks[1].midpoint = Rat(config.nTrials, 2)
        /\ config.nTrials = 0 => Result.blocks = <<>>

C6_Witness ==
    /\ Returned
    /\ config.nTrials >= 2
    /\ config.blockSize > config.nTrials
    /\ Len(Result.blocks) = 1

----------------------------------------------------------------------------
(* The strategies.  The trials played so far in the call, or, once it has  *)
(* returned, the trials it returned.                                       *)

Played == IF Returned THEN Result.trials ELSE trials[1]

AgentActionAt(k) == Played[k].agentAction

OpponentActionAt(k) == Played[k].opponentAction

(* C7: with agent Always-C and opponent Always-D, for any seed and any     *)
(* nTrials >= 1, every trial has agent action C, opponent action D and     *)
(* reward payoff[0][1]; with nTrials = 4, blockSize >= 4 and payoff        *)
(* [[3,0],[5,1]] the rewards are 0,0,0,0 and there is a single block with  *)
(* pctCooperate = 100, oppPctCooperate = 0 and meanReward = 0.             *)
C7_AlwaysCAgainstAlwaysD ==
    (config.agentStrategy = ALWAYS_C /\ config.opponentStrategy = ALWAYS_D) =>
        /\ \A k \in 1..Len(Played) :
             /\ AgentActionAt(k) = C
             /\ OpponentActionAt(k) = D
             /\ Played[k].reward = config.payoff[C][D]
        /\ (/\ Finished(1, 1)
            /\ config.nTrials = 4
            /\ config.blockSize >= 4
            /\ config.payoff = Matrix(3, 0, 5, 1)) =>
               /\ IsResult(Result)
               /\ [k \in 1..Len(Result.trials) |-> Result.trials[k].reward]
                      = <<0, 0, 0, 0>>
               /\ Len(Result.blocks) = 1
               /\ Result.blocks[1].pctCooperate = IntRat(100)
               /\ Result.blocks[1].oppPctCooperate = IntRat(0)
               /\ Result.blocks[1].meanReward = IntRat(0)

C7_Witness ==
    /\ Returned
    /\ config.agentStrategy = ALWAYS_C /\ config.opponentStrategy = ALWAYS_D
    /\ config.nTrials = 4
    /\ config.blockSize >= 4
    /\ config.payoff = Matrix(3, 0, 5, 1)
    /\ config.seed = MaxSeed

(* C8: a Tit-for-Tat player, agent or opponent, cooperates on trial 0 and  *)
(* on every trial t > 0 plays the action the other player played on trial  *)
(* t-1; against Always-Defect it cooperates on trial 0 and defects on      *)
(* every later trial.                                                      *)
C8_TitForTat ==
    /\ config.agentStrategy = TIT_FOR_TAT =>
         \A k \in 1..Len(Played) :
             /\ AgentActionAt(k) = (IF k = 1 THEN C ELSE OpponentActionAt(k - 1))
             /\ config.opponentStrategy = ALWAYS_D =>
                    AgentActionAt(k) = (IF k = 1 THEN C ELSE D)
    /\ config.opponentStrategy = TIT_FOR_TAT =>
         \A k \in 1..Len(Played) :
             /\ OpponentActionAt(k) = (IF k = 1 THEN C ELSE AgentActionAt(k - 1))
             /\ config.agentStrategy = ALWAYS_D =>
                    OpponentActionAt(k) = (IF k = 1 THEN C ELSE D)

\* a Tit-for-Tat opponent that has mirrored both a Defect and a Cooperate
\* of a learning agent
C8_Witness ==
    /\ Returned
    /\ config.opponentStrategy = TIT_FOR_TAT
    /\ config.agentStrategy \in {RL_AGENT, RANDOM}
    /\ \E j, k \in 2..Len(Played) :
           OpponentActionAt(j) = D /\ OpponentActionAt(k) = C /\ j < k

\* the other player defected on some trial before trial k (k = 1, 2, ...)
DefectedBefore(field, k) == \E j \in 1..(k - 1) : Played[j][field] = D

(* C9: a Grim-Trigger player, agent or opponent, cooperates on every trial *)
(* up to and including the first trial on which the other player defects   *)
(* and defects on every later trial, whatever the other player does then;  *)
(* its triggered flag, once set, stays set for the rest of the run.        *)
C9_GrimTrigger ==
    /\ [](/\ config.agentStrategy = GRIM_TRIGGER =>
               \A k \in 1..Len(Played) :
                   AgentActionAt(k) =
                       (IF DefectedBefore("opponentAction", k) THEN D ELSE C)
          /\ config.opponentStrategy = GRIM_TRIGGER =>
               \A k \in 1..Len(Played) :
                   OpponentActionAt(k) =
                       (IF DefectedBefore("agentAction", k) THEN D ELSE C))
    /\ [][pc'[1] = "trials" =>
            /\ agentGrimState[1] => agentGrimState'[1]
            /\ opponentGrimState[1] => opponentGrimState'[1]]_vars

\* a Grim-Trigger player keeps defecting after the other player has gone
\* back to Cooperate
C9_Witness ==
    /\ pc[1] = "trials"
    /\ config.agentStrategy = GRIM_TRIGGER
    /\ agentGrimState[1]
    /\ \E j, k \in 1..Len(Played) :
           /\ j < k /\ k < Len(Played)
           /\ OpponentActionAt(j) = D
           /\ OpponentActionAt(k) = C
           /\ AgentActionAt(k + 1) = D

(* C10: a Pavlov player, agent or opponent, cooperates on trial 0 and on   *)
(* every trial t > 0 cooperates if and only if its own action and the      *)
(* other player's action on trial t-1 were equal.                          *)
C10_Pavlov ==
    /\ config.agentStrategy = PAVLOV =>
         \A k \in 1..Len(Played) :
             AgentActionAt(k) =
                 (IF k = 1 \/ AgentActionAt(k - 1) = OpponentActionAt(k - 1)
                  THEN C ELSE D)
    /\ config.opponentStrategy = PAVLOV =>
         \A k \in 1..Len(Played) :
             OpponentActionAt(k) =
                 (IF k = 1 \/ AgentActionAt(k - 1) = OpponentActionAt(k - 1)
                  THEN C ELSE D)

\* a Pavlov opponent that cooperated after both had defected
C10_Witness ==
    /\ Returned
    /\ config.opponentStrategy = PAVLOV
    /\ \E k \in 2..Len(Played) :
           /\ AgentActionAt(k - 1) = D /\ OpponentActionAt(k - 1) = D
           /\ OpponentActionAt(k) = C

----------------------------------------------------------------------------
(* The state encoder. *)

\* the encoding the documentation gives: CC=0, CD=1, DC=2, DD=3, with an
\* absent action read as Cooperate
Encoding(agentLast, opponentLast) ==
    CASE agentLast \in {null, C} /\ opponentLast \in {null, C} -> 0
      [] agentLast \in {null, C} /\ opponentLast = D -> 1
      [] agentLast = D /\ opponentLast \in {null, C} -> 2
      [] agentLast = D /\ opponentLast = D -> 3

\* the state index of the trial the loop is about to run
CurrentState ==
    getState(config.stateMemory, agentLastAction[1], opponentLastAction[1])

(* C11: the state encoder returns 0 in Global mode, the opponent's last     *)
(* action in Opponent-Last-Move mode and agentLast*2 + opponentLast in      *)
(* Both-Last-Moves mode (CC=0, CD=1, DC=2, DD=3), with absent history read  *)
(* as Cooperate; so the state on trial 0 is 0 in every mode, and on every   *)
(* trial the state index lies in 0 .. numStates-1, a row of the tables,     *)
(* where numStates is 1, 2 or 4.                                            *)
C11_StateEncoder ==
    /\ \A a, o \in Actions \cup {null} :
         /\ getState(S1_GLOBAL, a, o) = 0
         /\ getState(S2_OPP_MOVE, a, o) = (IF o = D THEN 1 ELSE 0)
         /\ getState(S4_BOTH_MOVE, a, o) = Encoding(a, o)
    /\ numStates \in {1, 2, 4}
    /\ pc[1] = "trials" =>
         /\ t[1] = 0 => CurrentState = 0
         /\ CurrentState \in 0..(numStates - 1)
         /\ CurrentState \in DOMAIN Q[1]
         /\ DOMAIN Q[1] = 0..(numStates - 1)
         /\ DOMAIN H[1] = DOMAIN Q[1] /\ DOMAIN N[1] = DOMAIN Q[1]
         /\ DOMAIN b[1] = DOMAIN Q[1]
         /\ t[1] > 0 =>
              CurrentState =
                  (CASE config.stateMemory = S1_GLOBAL -> 0
                     [] config.stateMemory = S2_OPP_MOVE ->
                          trials[1][t[1]].opponentAction
                     [] config.stateMemory = S4_BOTH_MOVE ->
                          Encoding(trials[1][t[1]].agentAction,
                                   trials[1][t[1]].opponentAction))

\* Both-Last-Moves after the agent defected against a cooperating opponent
C11_Witness ==
    /\ pc[1] = "trials"
    /\ config.stateMemory = S4_BOTH_MOVE
    /\ t[1] >= 2
    /\ CurrentState = 2
    /\ trials[1][t[1]].agentAction = D

----------------------------------------------------------------------------
(* The random source alone. *)

\* u is an unsigned 32-bit integer, given by its 16-bit halves
IsUint32(u) == u[1] \in 0..(Half - 1) /\ u[2] \in 0..(Half - 1)

(* C12: for every integer seed and after any number of calls, next()       *)
(* returns u / 2^32 for an unsigned 32-bit integer u, a value >= 0 and     *)
(* < 1, and two SeededRNG instances built from the same seed return the    *)
(* same value on their n-th call for every n, in whatever order the calls  *)
(* are made.  With seed 42 the first values are those of Mulberry32:       *)
(* 0.6011037519..., 0.4482905589..., 0.8524657934..., and with seed -1 the  *)
(* first is 0.8964226141...                                                *)
C12_NextInUnitInterval ==
    /\ \A e \in Engines :
         /\ \A n \in 1..Len(returned[e]) : IsUint32(returned[e][n])
         /\ IsUint32(NextBits(rng[e]))
    /\ \A n \in 1..Min(Len(returned[1]), Len(returned[2])) :
         returned[1][n] = returned[2][n]
    /\ (config.seed = 42 /\ Len(returned[1]) >= 3) =>
         SubSeq(returned[1], 1, 3)
             = <<<<39393, 61308>>, <<29379, 11146>>, <<55867, 12992>>>>
    /\ (config.seed = -1 /\ Len(returned[2]) >= 1) =>
         returned[2][1] = <<58747, 62419>>

\* a negative seed, every call made on both instances, a value of 1/2 or
\* more (bit 31 of u set) and a value below 1/2
C12_Witness ==
    /\ config.seed < 0
    /\ Len(returned[1]) = MaxDraws /\ Len(returned[2]) = MaxDraws
    /\ \E n \in 1..MaxDraws : returned[2][n][1] >= Half \div 2
    /\ \E n \in 1..MaxDraws : returned[2][n][1] < Half \div 2

----------------------------------------------------------------------------
(* Two instances side by side. *)

\* how far instance e has come
Progress(e) == <<callsLeft[e], pc[e], t[e], i[e], Len(returned[e])>>

\* everything instance e and its call of run() own and read: this.rng, the
\* calls made and their results, and the locals of the call in progress
Private(e) ==
    <<rng[RngOf(e)], callsLeft[e], pc[e], returned[e], t[e],
      agentLastAction[e], opponentLastAction[e], agentGrimState[e],
      opponentGrimState[e], Q[e], N[e], H[e], b[e], trials[e], i[e],
      blocks[e]>>

(* C13: two instances built from the same configuration object, their      *)
(* steps interleaved in any order, do not interfere.  Every step changes   *)
(* what one instance owns and nothing else: the other instance's random    *)
(* source, tables, history and results, and the configuration, stay as     *)
(* they were.  So each instance goes through the states it goes through    *)
(* alone: whenever the two are equally far along they are in the same      *)
(* private state, and they return the same result.                         *)
C13_NoInterference ==
    /\ [](/\ Progress(1) = Progress(2) => Private(1) = Private(2)
          /\ (Finished(1, 1) /\ Finished(2, 1)) => returned[1] = returned[2])
    /\ [][/\ config' = config
          /\ \E e \in Engines : \A f \in Engines \ {e} :
                 Private(f)' = Private(f)]_vars

\* both calls in their trial loops, one a trial ahead of the other, with an
\* agent that learns and draws
C13_Witness ==
    /\ pc[1] = "trials" /\ pc[2] = "trials"
    /\ t[1] = 1 /\ t[2] = 2
    /\ config.agentStrategy = RL_AGENT
    /\ config.opponentStrategy = RANDOM
    /\ rng[1] # rng[2]
    /\ Q[1] # Q[2]

----------------------------------------------------------------------------
(* The learning updates, read off the trial records: every record carries  *)
(* the snapshot of the table taken right after the trial's update.         *)

\* the state index of the k-th trial played (k = 1, 2, ...): the encoding of
\* the actions recorded for the trial before it
StateAt(k) ==
    IF k = 1 THEN 0
    ELSE CASE config.stateMemory = S1_GLOBAL -> 0
           [] config.stateMemory = S2_OPP_MOVE -> OpponentActionAt(k - 1)
           [] config.stateMemory = S4_BOTH_MOVE ->
                Encoding(AgentActionAt(k - 1), OpponentActionAt(k - 1))

\* the k-th trial played visited (state s, action a)
Visits(k, s, a) == StateAt(k) = s /\ AgentActionAt(k) = a

\* the entry for (state s, action a) in the snapshot taken after trial k
SnapshotAt(k, s, a) == Played[k].parameters[s][a + 1]

IncrementalQ ==
    config.agentStrategy = RL_AGENT /\ config.learningAlgorithm = Q_INCREMENTAL

InitialSnapshot ==
    [s \in 0..(numStates - 1) |->
        IF config.learningAlgorithm = Q_INCREMENTAL
        THEN <<config.initialQ[s][C], config.initialQ[s][D]>>
        ELSE <<config.initialH[s][C], config.initialH[s][D]>>]

(* C15: the learning tables are copies of the configuration's initial      *)
(* tables, never aliases: no step of run() changes config.initialQ,        *)
(* config.initialH or any other field of the configuration, so when run()  *)
(* returns they have the values they had before the call, whatever updates *)
(* the run made; and a call starts from those values.                      *)
C15_ConfigUntouched ==
    /\ [][config' = config]_vars
    /\ [](pc[1] = "trials" /\ t[1] = 0 =>
            \A s \in 0..(numStates - 1) :
                Q[1][s] = config.initialQ[s] /\ H[1][s] = config.initialH[s])

\* the run has changed its table in rows the configuration also has
C15_Witness ==
    /\ Returned
    /\ config.agentStrategy = RL_AGENT
    /\ Len(Result.trials) >= 2
    /\ Result.trials[1].parameters # InitialSnapshot
    /\ Result.trials[2].parameters # Result.trials[1].parameters

----------------------------------------------------------------------------
(* One trial step of the call, seen from outside: the state before, the    *)
(* record it appends and the state after.                                  *)

\* the record the step appends
NewTrial == trials'[1][t[1] + 1]

\* r + gamma * max(Q[sNext][0], Q[sNext][1]), over the table before the step
TargetOver(sNext) ==
    RatAdd(IntRat(NewTrial.reward),
           RatMul(config.gamma,
                  IF RatLess(Q[1][sNext][C], Q[1][sNext][D])
                  THEN Q[1][sNext][D] ELSE Q[1][sNext][C]))

\* the learning rate: alpha, or 1 / count when alpha is null
RateFor(count) == IF config.alpha = NullAlpha THEN <<1, count>> ELSE config.alpha

\* old + lr * (target - old)
MovedToward(old, lr, target) == RatAdd(old, RatMul(lr, RatSub(target, old)))

(* C16: state carries forward.  For an RL agent, the row a trial reads and *)
(* updates is the row of the state encoded from the previous trial's       *)
(* actions, and the next-state index its Incremental-Q update uses is the  *)
(* state index the next trial will use.                                    *)
C16_StateCarriesForward ==
    [][(Trial(1) /\ IncrementalQ) =>
          /\ CurrentState = StateAt(t[1] + 1)
          /\ N'[1][CurrentState][NewTrial.agentAction]
                 = N[1][CurrentState][NewTrial.agentAction] + 1
          /\ \A s \in DOMAIN N[1] : s # CurrentState => N'[1][s] = N[1][s]
          /\ Q'[1][CurrentState][NewTrial.agentAction]
                 = MovedToward(Q[1][CurrentState][NewTrial.agentAction],
                               RateFor(N'[1][CurrentState][NewTrial.agentAction]),
                               TargetOver(CurrentState'))]_vars

\* the next state differs from the current one and its row has a different
\* maximum, with discounting
C16_Witness ==
    /\ pc[1] = "trials"
    /\ IncrementalQ
    /\ config.gamma # IntRat(0)
    /\ t[1] >= 2 /\ t[1] < config.nTrials
    /\ StateAt(t[1]) # CurrentState
    /\ RatMax(Q[1][CurrentState][C], Q[1][CurrentState][D])
           # RatMax(Q[1][StateAt(t[1])][C], Q[1][StateAt(t[1])][D])

\* the state encoded from the actions of the record the step appends
NextStateOf == 
    CASE config.stateMemory = S1_GLOBAL -> 0
      [] config.stateMemory = S2_OPP_MOVE -> NewTrial.opponentAction
      [] config.stateMemory = S4_BOTH_MOVE ->
           Encoding(NewTrial.agentAction, NewTrial.opponentAction)

----------------------------------------------------------------------------
(* REINFORCE *)

Reinforce ==
    /\ config.agentStrategy = RL_AGENT
    /\ config.learningAlgorithm \in {REINFORCE_BASELINE, PREFERENCE}

\* the softmax distribution over the row of the current state, before the
\* step, at the exploration parameter recorded for the trial
PolicyUsed == softmax(H[1][CurrentState], NewTrial.explorationParam)

\* reward minus the baseline value held before the step (0 without baseline)
AdvantageUsed ==
    RatSub(IntRat(NewTrial.reward),
           IF config.learningAlgorithm = REINFORCE_BASELINE
           THEN b[1][CurrentState] ELSE IntRat(0))

\* 1 if action k is the one taken, else 0
Taken(k) == IntRat(IF k = NewTrial.agentAction THEN 1 ELSE 0)

(* C18: under REINFORCE the advantage is the reward minus the baseline     *)
(* value held before this trial's baseline update (0 for the no-baseline   *)
(* variant); the with-baseline variant then moves baseline[s] by           *)
(* alphaB * (reward - baseline[s]), the other variant leaves the baseline  *)
(* alone; and for both action indices i, H[s][i] grows by                  *)
(* alphaPi * advantage * ((i = action ? 1 : 0) - pi[i]), pi being the      *)
(* softmax distribution over H[s] the trial's action was sampled from.     *)
(* The rows of other states do not move.                                   *)
C18_ReinforceUpdate ==
    [][(Trial(1) /\ Reinforce) =>
          /\ \A s \in DOMAIN H[1] :
               IF s = CurrentState
               THEN /\ \A k \in Actions :
                         H'[1][s][k] =
                             RatAdd(H[1][s][k],
                                    RatMul(RatMul(config.alphaPi, AdvantageUsed),
                                           RatSub(Taken(k), PolicyUsed[k])))
                    /\ b'[1][s] =
                           (IF config.learningAlgorithm = REINFORCE_BASELINE
                            THEN RatAdd(b[1][s],
                                     RatMul(config.alphaB,
                                            RatSub(IntRat(NewTrial.reward), b[1][s])))
                            ELSE b[1][s])
               ELSE H'[1][s] = H[1][s] /\ b'[1][s] = b[1][s]
          /\ NewTrial.agentAction =
                 (IF DrawLess(NextBits(rng[1]), PolicyUsed[C]) THEN C ELSE D)
          /\ config.learningAlgorithm = PREFERENCE =>
                 \A s \in DOMAIN b[1] : b[1][s] = IntRat(0)]_vars

\* with a baseline: a state visited on two trials in a row, the baseline
\* already moved off 0 by the first, and a policy that is no longer even
C18_Witness ==
    /\ pc[1] = "trials"
    /\ Reinforce
    /\ config.learningAlgorithm = REINFORCE_BASELINE
    /\ t[1] >= 2
    /\ StateAt(t[1]) = StateAt(t[1] - 1)
    /\ Played[t[1] - 1].reward # 0
    /\ Played[t[1]].reward # Played[t[1] - 1].reward
    /\ Played[t[1] - 1].parameters[StateAt(t[1])][1]
           # Played[t[1] - 1].parameters[StateAt(t[1])][2]
    /\ b[1][StateAt(t[1])] # IntRat(0)


\* the exploration parameter of the trial about to be played
ExParamNow == getExplorationParam(config.explorationConfig, t[1])

\* the generator after the one draw of the agent
AfterAgentDraw == NextState(rng[1])

(* C19: when the agent is RL and the learning algorithm is either          *)
(* REINFORCE variant, the action of every trial is sampled by softmax over *)
(* H[state] at that trial's exploration parameter with exactly one random  *)
(* draw, whatever actionSelection is configured: the action is C iff the   *)
(* next value of the generator is below the softmax probability of C, and  *)
(* the generator moves one step for the agent (the next value after that   *)
(* is the one a Random opponent compares).                                 *)
C19_ReinforceAlwaysSoftmax ==
    [][(Trial(1) /\ Reinforce) =>
          /\ NewTrial.explorationParam = ExParamNow
          /\ NewTrial.agentAction =
                 (IF DrawLess(NextBits(rng[1]),
                              softmax(H[1][CurrentState], ExParamNow)[C])
                  THEN C ELSE D)
          /\ IF config.opponentStrategy = RANDOM
             THEN /\ rng'[1] = NextState(AfterAgentDraw)
                  /\ NewTrial.opponentAction =
                         (IF DrawLess(NextBits(AfterAgentDraw),
                                      config.pCooperateOpponent)
                          THEN C ELSE D)
             ELSE rng'[1] = AfterAgentDraw]_vars

\* a REINFORCE agent configured with epsilon-greedy or UCB1 that has sampled
\* both actions, the later one from a policy that is not even
C19_Witness ==
    /\ pc[1] = "trials"
    /\ Reinforce
    /\ config.actionSelection \in {EPSILON_GREEDY, UCB}
    /\ t[1] >= 2
    /\ AgentActionAt(t[1]) # AgentActionAt(t[1] - 1)
    /\ Played[t[1] - 1].parameters[StateAt(t[1])][1]
           # Played[t[1] - 1].parameters[StateAt(t[1])][2]


----------------------------------------------------------------------------
(* UCB1 *)

UcbAgent == IncrementalQ /\ config.actionSelection = UCB

\* the generator after k calls of next()
RECURSIVE Stepped(_, _)
Stepped(state, k) == IF k = 0 THEN state ELSE Stepped(NextState(state), k - 1)

\* the calls of next() a trial makes for the opponent
OpponentDraws == IF config.opponentStrategy = RANDOM THEN 1 ELSE 0

\* the trial step made k calls of next() for the agent
AgentDrew(k) == rng'[1] = Stepped(rng[1], k + OpponentDraws)

\* value + c * sqrt(ln(total + 1) / count) of action a in the current state
UcbValue(a) ==
    RatAdd(Q[1][CurrentState][a],
           UcbBonus(config.ucbC,
                    N[1][CurrentState][C] + N[1][CurrentState][D],
                    N[1][CurrentState][a]))

Other(a) == IF a = C THEN D ELSE C

----------------------------------------------------------------------------
(* Epsilon-greedy *)

GreedyAgent == IncrementalQ /\ config.actionSelection = EPSILON_GREEDY

\* the second value the generator gives in the trial decides: C iff < 0.5
BySecondDraw ==
    /\ NewTrial.agentAction =
           (IF DrawLess(NextBits(AfterAgentDraw), <<1, 2>>) THEN C ELSE D)
    /\ AgentDrew(2)

\* |Q[s][0] - Q[s][1]| < 1e-10 in the current state
ValuesTied == NearZero(RatSub(Q[1][CurrentState][C], Q[1][CurrentState][D]))

(* C21: epsilon-greedy selection draws r1 first; if r1 < epsilon the       *)
(* action is C iff a second draw is < 0.5; otherwise, if the two values of *)
(* the state differ by 1e-10 or more the action with the larger value is   *)
(* chosen with no further draw, and if they are within 1e-10 one further   *)
(* draw decides (C iff < 0.5).  Hence with epsilon = 0 and distinct values *)
(* the greedy action is always chosen.                                     *)
C21_EpsilonGreedy ==
    [][(Trial(1) /\ GreedyAgent) =>
          /\ IF DrawLess(NextBits(rng[1]), ExParamNow) THEN BySecondDraw
             ELSE IF ValuesTied THEN BySecondDraw
             ELSE /\ NewTrial.agentAction =
                         (IF RatLess(Q[1][CurrentState][D], Q[1][CurrentState][C])
                          THEN C ELSE D)
                  /\ AgentDrew(1)
          /\ (ExParamNow = IntRat(0) /\ ~ValuesTied) =>
                 /\ RatLess(Q[1][CurrentState][Other(NewTrial.agentAction)],
                            Q[1][CurrentState][NewTrial.agentAction])
                 /\ AgentDrew(1)]_vars

\* a run that has met the three cases: a trial with epsilon = 0 decided by
\* distinct values, after a trial whose values were tied
C21_Witness ==
    /\ pc[1] = "trials"
    /\ GreedyAgent
    /\ t[1] >= 3
    /\ Played[t[1]].explorationParam = IntRat(0)
    /\ Played[1].explorationParam # IntRat(0)
    /\ StateAt(t[1]) = StateAt(t[1] - 1)
    /\ Played[t[1] - 1].parameters[StateAt(t[1])][1]
           # Played[t[1] - 1].parameters[StateAt(t[1])][2]
    /\ InitialSnapshot[StateAt(1)][1] = InitialSnapshot[StateAt(1)][2]


----------------------------------------------------------------------------
(* Softmax sampling *)

\* the call of selectActionSoftmax the step has just recorded
Sampled == returned'[1][Len(returned'[1])]

\* probs[0] + ... + probs[k] exceeds the value drawn
CumulativeExceeds(k) ==
    DrawLess(Sampled.r,
             IF k = C THEN Sampled.probs[C]
             ELSE RatAdd(Sampled.probs[C], Sampled.probs[D]))

(* C22: softmax sampling consumes exactly one random draw r and returns    *)
(* the first action index i whose cumulative probability                   *)
(* probs[0] + ... + probs[i] exceeds r; if no index satisfies this it      *)
(* returns the last index; the result is always a valid action index       *)
(* (0 or 1).                                                               *)
C22_SoftmaxSampling ==
    [][Sample(1) =>
          /\ rng'[1] = NextState(rng[1])
          /\ Sampled.r = NextBits(rng[1])
          /\ Sampled.action \in {0, 1}
          /\ \A k \in Actions :
                 (CumulativeExceeds(k)
                  /\ \A j \in Actions : j < k => ~CumulativeExceeds(j))
                     => Sampled.action = k
          /\ (\A k \in Actions : ~CumulativeExceeds(k)) => Sampled.action = 1]_vars

\* calls that returned the first index, the second because the cumulative
\* sum exceeded the draw, and the last because no sum did
C22_Witness ==
    /\ Len(returned[1]) = MaxDraws
    /\ \E n \in 1..MaxDraws :
           /\ returned[1][n].action = C
           /\ DrawLess(returned[1][n].r, returned[1][n].probs[C])
    /\ \E n \in 1..MaxDraws :
           /\ returned[1][n].action = D
           /\ ~DrawLess(returned[1][n].r, returned[1][n].probs[C])
           /\ DrawLess(returned[1][n].r,
                       RatAdd(returned[1][n].probs[C], returned[1][n].probs[D]))
    /\ \E n \in 1..MaxDraws :
           /\ returned[1][n].action = D
           /\ ~DrawLess(returned[1][n].r,
                        RatAdd(returned[1][n].probs[C], returned[1][n].probs[D]))
           /\ returned[1][n].probs[C] # IntRat(0)


----------------------------------------------------------------------------
(* The exploration schedule *)

\* x <= y
RatLeq(x, y) == ~RatLess(y, x)

\* start - slope * (trial - startTrial)
LinearAt(trial) ==
    RatSub(config.explorationConfig.start,
           RatMul(config.explorationConfig.slope,
                  IntRat(trial - config.explorationConfig.startTrial)))

\* p = max(x, y)
IsMax(p, x, y) == RatLeq(x, p) /\ RatLeq(y, p) /\ p \in {x, y}

(* C23: the exploration parameter recorded for trial t is start for every  *)
(* trial t < startTrial and for every trial under schedule None; and for   *)
(* t >= startTrial under Linear it is                                      *)
(* max(min, start - slope * (t - startTrial)), so with slope >= 0 and      *)
(* min <= start it never increases from one trial to the next and always   *)
(* stays within [min, start].                                              *)
C23_ExplorationSchedule ==
    \A k \in 1..Len(Played) :
        /\ Played[k].trial = k - 1
        /\ (\/ config.explorationConfig.schedule = NONE
            \/ k - 1 < config.explorationConfig.startTrial) =>
               Played[k].explorationParam = config.explorationConfig.start
        /\ (/\ config.explorationConfig.schedule = LINEAR
            /\ k - 1 >= config.explorationConfig.startTrial) =>
               IsMax(Played[k].explorationParam,
                     config.explorationConfig.min, LinearAt(k - 1))
        /\ (/\ config.explorationConfig.schedule = LINEAR
            /\ RatLeq(IntRat(0), config.explorationConfig.slope)
            /\ RatLeq(config.explorationConfig.min,
                      config.explorationConfig.start)) =>
               /\ RatLeq(config.explorationConfig.min, Played[k].explorationParam)
               /\ RatLeq(Played[k].explorationParam,
                         config.explorationConfig.start)
               /\ k > 1 => RatLeq(Played[k].explorationParam,
                                  Played[k - 1].explorationParam)

\* a linear schedule seen whole: start before startTrial, a value strictly
\* between, and the floor
C23_Witness ==
    /\ Returned
    /\ IsResult(Result)
    /\ config.explorationConfig.schedule = LINEAR
    /\ config.explorationConfig.startTrial >= 1
    /\ Len(Played) >= 4
    /\ Played[1].explorationParam = config.explorationConfig.start
    /\ RatLess(config.explorationConfig.min, Played[3].explorationParam)
    /\ RatLess(Played[3].explorationParam, config.explorationConfig.start)
    /\ Played[4].explorationParam = config.explorationConfig.min
    /\ LinearAt(3) # config.explorationConfig.min


----------------------------------------------------------------------------
(* The order of the random draws *)

\* the most calls of next() one trial makes: two for the agent, one for
\* the opponent
MaxDrawsPerTrial == 3

\* the n-th state of the generator built from config.seed
StreamAt(n) == Stepped(SeededRNG(config.seed), n)

(* C24: all random draws of a run come from the single SeededRNG created   *)
(* from config.seed and occur in a fixed order: within each trial every    *)
(* draw made for the agent's action precedes the draw (if any) made for    *)
(* the opponent's action, the learning update makes no draw, and all draws *)
(* of trial t precede all draws of trial t+1.  So this.rng is always at a  *)
(* position of the stream of the seed; only a trial step moves it, by the  *)
(* k draws of the agent and then the one of a Random opponent, whose move  *)
(* follows the value after the agent's k; a Random agent's move follows    *)
(* the first value and a fixed strategy draws nothing.                     *)
C24_SingleStreamInOrder ==
    /\ [](\E n \in 0..(MaxDrawsPerTrial * config.nTrials) : rng[1] = StreamAt(n))
    /\ [][rng' # rng => Trial(1)]_vars
    /\ [][Trial(1) =>
            /\ rng'[2] = rng[2]
            /\ \E k \in 0..(MaxDrawsPerTrial - 1) :
                 /\ AgentDrew(k)
                 /\ config.opponentStrategy = RANDOM =>
                        NewTrial.opponentAction =
                            (IF DrawLess(NextBits(Stepped(rng[1], k)),
                                         config.pCooperateOpponent)
                             THEN C ELSE D)
                 /\ config.agentStrategy = RANDOM =>
                        /\ k = 1
                        /\ NewTrial.agentAction =
                               (IF DrawLess(NextBits(rng[1]), config.pCooperate)
                                THEN C ELSE D)
                 /\ config.agentStrategy \notin {RANDOM, RL_AGENT} => k = 0]_vars

\* a run of Random against Random with unequal probabilities that has
\* drawn twice in each of its trials, the two players moving differently
C24_Witness ==
    /\ pc[1] = "trials"
    /\ config.agentStrategy = RANDOM
    /\ config.opponentStrategy = RANDOM
    /\ config.pCooperate # config.pCooperateOpponent
    /\ t[1] >= 2
    /\ rng[1] = StreamAt(2 * t[1])
    /\ AgentActionAt(t[1]) # OpponentActionAt(t[1])
    /\ AgentActionAt(t[1]) # AgentActionAt(t[1] - 1)


----------------------------------------------------------------------------
(* What a step may write in the learning tables *)

\* the tables of the call in progress
Tables == <<Q[1], N[1], H[1], b[1]>>

\* every entry of table X but that of (state s, action a) is kept
OnlyEntry(X, s, a) ==
    \A s2 \in DOMAIN X[1] : \A a2 \in Actions :
        (s2 # s \/ a2 # a) => X'[1][s2][a2] = X[1][s2][a2]

\* every row of table X but that of state s is kept
OnlyRow(X, s) == \A s2 \in DOMAIN X[1] : s2 # s => X'[1][s2] = X[1][s2]

(* C25: the learning tables are changed only by the learning update of the *)
(* selected algorithm and only in the row of the trial's current state:    *)
(* when the agent is not RL-Agent, Q, N, H and baseline never change and   *)
(* every trial's snapshot equals the initial table; under Incremental-Q    *)
(* only Q[s][a] and N[s][a] of the visited pair change while H and         *)
(* baseline never change; under REINFORCE Q and N never change, and        *)
(* baseline changes only for REINFORCE-with-Baseline.  The steps of block  *)
(* aggregation change none of them.                                        *)
C25_TablesFrame ==
    /\ [](config.agentStrategy # RL_AGENT =>
             \A k \in 1..Len(Played) : Played[k].parameters = InitialSnapshot)
    /\ [][pc'[1] = "blocks" => Tables' = Tables]_vars
    /\ [][Trial(1) =>
            /\ config.agentStrategy # RL_AGENT => Tables' = Tables
            /\ IncrementalQ =>
                   /\ H'[1] = H[1] /\ b'[1] = b[1]
                   /\ OnlyEntry(Q, CurrentState, NewTrial.agentAction)
                   /\ OnlyEntry(N, CurrentState, NewTrial.agentAction)
            /\ Reinforce =>
                   /\ Q'[1] = Q[1] /\ N'[1] = N[1]
                   /\ OnlyRow(H, CurrentState)
                   /\ OnlyRow(b, CurrentState)
                   /\ config.learningAlgorithm = PREFERENCE => b'[1] = b[1]]_vars

\* REINFORCE with a baseline after some trials: H and the baseline moved in
\* the row of one state and stand as at the start in another, Q stands as
\* copied and no visit has been counted
C25_Witness ==
    /\ pc[1] = "trials"
    /\ Reinforce
    /\ config.learningAlgorithm = REINFORCE_BASELINE
    /\ t[1] >= 2
    /\ \E s \in DOMAIN H[1] : \E s2 \in DOMAIN H[1] :
           /\ b[1][s] # IntRat(0)
           /\ H[1][s] # config.initialH[s]
           /\ b[1][s2] = IntRat(0)
           /\ H[1][s2] = config.initialH[s2]
    /\ Q[1] = CopyRows(config.initialQ)
    /\ \A s \in DOMAIN N[1] : \A a \in Actions : N[1][s][a] = 0


----------------------------------------------------------------------------
(* A block size that is not positive *)

Malformed == config.nTrials >= 1 /\ config.blockSize <= 0

\* an upper bound on the steps the call has yet to take when blockSize <= 0:
\* the trials, the end of the trial loop, and at most one block before the
\* slice is empty
StepsLeftMalformed ==
    CASE pc[1] = "idle" -> callsLeft[1] * (config.nTrials + 5)
      [] pc[1] = "trials" -> (config.nTrials - t[1]) + 4
      [] pc[1] = "blocks" -> 2 - Len(blocks[1])

(* C26: with nTrials >= 1 and blockSize <= 0 (a malformed configuration),  *)
(* run() neither loops forever nor returns a result: it fails with an      *)
(* error raised during block aggregation, which propagates to the caller.  *)
(* Until the call has ended a step can be taken and every step lowers      *)
(* StepsLeftMalformed, which is never negative; the call ends only by the  *)
(* throw of the block loop, after all trials have run.                     *)
C26_NonPositiveBlockSizeThrows ==
    /\ [](Malformed =>
            /\ StepsLeftMalformed >= 0
            /\ ~Finished(1, 1) => CanStep(1)
            /\ \A r \in 1..Len(returned[1]) :
                   ~IsResult(returned[1][r]) /\ returned[1][r] = Threw)
    /\ [][Malformed =>
            /\ StepsLeftMalformed' < StepsLeftMalformed
            /\ returned' # returned =>
                   /\ pc[1] = "blocks"
                   /\ Len(trials[1]) = config.nTrials
                   /\ BlockSlice(1) = <<>>
                   /\ returned'[1] = Append(returned[1], Threw)]_vars

\* the call has thrown with a negative block size and trials enough for a
\* first slice that is not empty
C26_Witness ==
    /\ Finished(1, 1)
    /\ returned[1][1] = Threw
    /\ config.blockSize < 0
    /\ config.nTrials >= 2
    /\ pc[1] = "idle"


----------------------------------------------------------------------------
(* Runs that do not depend on the seed *)

FixedStrategies == {ALWAYS_C, ALWAYS_D, TIT_FOR_TAT, GRIM_TRIGGER, PAVLOV}

SeedFree ==
    /\ config.agentStrategy \in FixedStrategies
    /\ config.opponentStrategy \in FixedStrategies

\* the parts of the locals of instance e that a caller gets back
Outcome(e) == <<pc[e], t[e], trials[e], i[e], blocks[e], returned[e]>>

(* C27: when the agent is not RL-Agent and neither side uses the Random    *)
(* strategy (both strategies are among Always-C, Always-D, Tit-for-Tat,    *)
(* Grim-Trigger, Pavlov), no random draw is ever made and the returned     *)
(* trials and blocks are the same for every seed: of two instances built   *)
(* with different seeds neither ever moves its generator, and whenever     *)
(* both have returned they have returned the same.                         *)
C27_SeedFree ==
    /\ [][SeedFree => rng' = rng]_vars
    /\ [](SeedFree =>
            /\ rng[1] = SeededRNG(config.seed)
            /\ (Finished(1, 1) /\ Finished(2, 1)) =>
                   returned[1][1] = returned[2][1]
            /\ (/\ pc[1] = pc[2] /\ t[1] = t[2] /\ i[1] = i[2]
                /\ Len(returned[1]) = Len(returned[2])) =>
                   Outcome(1) = Outcome(2))

\* two instances with different seeds that have returned the same result
\* of several trials in which the agent has defected and the opponent has
\* moved both ways
C27_Witness ==
    /\ SeedFree
    /\ rng[1] # rng[2]
    /\ Finished(1, 1) /\ Finished(2, 1)
    /\ IsResult(returned[1][1])
    /\ returned[1][1] = returned[2][1]
    /\ Len(returned[2][1].trials) >= 2
    /\ \E k \in 1..Len(returned[2][1].trials) :
           returned[2][1].trials[k].agentAction = D
    /\ \E k \in 1..Len(returned[2][1].trials) :
           returned[2][1].trials[k].opponentAction = C
    /\ returned[2][1].trials[2].opponentAction
           # returned[2][1].trials[1].opponentAction


----------------------------------------------------------------------------
(* Strategies that never defect first *)

NiceStrategies == {ALWAYS_C, TIT_FOR_TAT, GRIM_TRIGGER, PAVLOV}

BothNice ==
    /\ config.agentStrategy \in NiceStrategies
    /\ config.opponentStrategy \in NiceStrategies

(* C28: when both players use strategies from {Always-C, Tit-for-Tat,      *)
(* Grim-Trigger, Pavlov}, both cooperate on every trial of the run,        *)
(* neither grim-trigger flag is ever set, and every reward equals          *)
(* payoff[0][0].                                                           *)
C28_MutualCooperation ==
    BothNice =>
        /\ \A k \in 1..Len(Played) :
               /\ Played[k].agentAction = C
               /\ Played[k].opponentAction = C
               /\ Played[k].reward = config.payoff[C][C]
        /\ agentGrimState[1] = FALSE
        /\ opponentGrimState[1] = FALSE
        /\ pc[1] = "trials" /\ t[1] > 0 =>
               agentLastAction[1] = C /\ opponentLastAction[1] = C

\* grim trigger against Pavlov, every trial played
C28_Witness ==
    /\ pc[1] = "trials"
    /\ config.agentStrategy = GRIM_TRIGGER
    /\ config.opponentStrategy = PAVLOV
    /\ t[1] = MaxTrials
    /\ Len(Played) = MaxTrials
    /\ config.payoff[C][C] # config.payoff[D][D]


----------------------------------------------------------------------------
(* The visit counts *)

\* the sum of N[s][a] over the states 0 .. s and both actions
RECURSIVE SumRows(_)
SumRows(s) == IF s < 0 THEN 0 ELSE N[1][s][C] + N[1][s][D] + SumRows(s - 1)

\* the completed trials of the call in which the state was s and the agent
\* chose a
VisitsOf(s, a) == {k \in 1..t[1] : Visits(k, s, a)}

Running == pc[1] \in {"trials", "blocks"}

(* C29: under an RL agent with Incremental-Q, after t completed trials the *)
(* visit counts satisfy: the sum over all states s and actions a of        *)
(* N[s][a] is t, every N[s][a] is a non-negative integer that never        *)
(* decreases, and N[s][a] equals the number of completed trials in which   *)
(* the state was s and the agent chose a.                                  *)
C29_VisitCounts ==
    /\ []((IncrementalQ /\ Running) =>
            /\ SumRows(numStates - 1) = t[1]
            /\ \A s \in DOMAIN N[1] : \A a \in Actions :
                   /\ N[1][s][a] \in Nat
                   /\ N[1][s][a] = Cardinality(VisitsOf(s, a)))
    /\ [][(IncrementalQ /\ Running /\ Running') =>
            \A s \in DOMAIN N[1] : \A a \in Actions :
                N'[1][s][a] >= N[1][s][a]]_vars

\* every trial played, over more than one state, one pair visited twice
\* or more and another once or more
C29_Witness ==
    /\ IncrementalQ
    /\ pc[1] = "trials"
    /\ t[1] = MaxTrials
    /\ \E s \in DOMAIN N[1] : \E a \in Actions : N[1][s][a] >= 2
    /\ \E s \in DOMAIN N[1] : \E s2 \in DOMAIN N[1] :
           /\ s # s2
           /\ N[1][s][C] + N[1][s][D] >= 1
           /\ N[1][s2][C] + N[1][s2][D] >= 1


----------------------------------------------------------------------------
(* Sample averages *)

\* the sum of the rewards of the trials 1 .. k that visited (s, a)
RECURSIVE RewardsOf(_, _, _)
RewardsOf(k, s, a) ==
    IF k = 0 THEN 0
    ELSE (IF Visits(k, s, a) THEN Played[k].reward ELSE 0) + RewardsOf(k - 1, s, a)

SampleAverage ==
    /\ IncrementalQ
    /\ config.alpha = NullAlpha
    /\ config.gamma = IntRat(0)

====
